---- MODULE Spec2Model ----
(***************************************************************************)
(* agent-memex: the TF-IDF memory index (tools/memory-search-simple.py)    *)
(* and the timeline built on it (tools/memory-timeline.py).                *)
(* Text is modelled at character level: a text is a sequence of one        *)
(* character strings, so that slicing, stripping, regex splitting and      *)
(* lexical comparison are computed as Python computes them.                *)
(***************************************************************************)
EXTENDS Integers, Sequences, FiniteSets, TLC

VARIABLES
    fs,       \* the source documents on disk (collector inputs)
    sklearn,  \* whether scikit-learn can be imported
    disk,     \* the content of INDEX_PATH (tools/index.pkl)
    ix,       \* the SimpleMemoryIndexer object: entries, vectorizer, matrix
    pc,       \* "idle": the caller may start an operation; "done": one returned
    op        \* the operation that just ended: its arguments and its outcome

vars == <<fs, sklearn, disk, ix, pc, op>>

(***************************************************************************)
(* Python values: None, str and int, tagged so that they can be compared.  *)
(* Absent stands for a key that a JSON record does not have.               *)
(***************************************************************************)
None == [t |-> "none", s |-> <<>>, n |-> 0]

Absent == [t |-> "absent", s |-> <<>>, n |-> 0]

Str(s) == [t |-> "str", s |-> s, n |-> 0]

Num(n) == [t |-> "int", s |-> <<>>, n |-> n]

\* bool(v) in Python: None, '' and 0 are false.
Truthy(v) ==
    CASE v.t = "str" -> Len(v.s) > 0
      [] v.t = "int" -> v.n # 0
      [] OTHER -> FALSE

\* dict.get(key, default)
GetOr(v, default) == IF v.t = "absent" THEN default ELSE v

(***************************************************************************)
(* Characters, in code-point order.                                        *)
(***************************************************************************)
Alphabet ==
    << "\n", " ", "#", ",", "-", ".", "/",
       "0", "1", "2", "3", "4", "5", "6", "7", "8", "9", ":",
       "A", "B", "C", "D", "E", "F", "G", "H", "I", "J", "K", "L", "M",
       "N", "O", "P", "Q", "R", "S", "T", "U", "V", "W", "X", "Y", "Z", "_",
       "a", "b", "c", "d", "e", "f", "g", "h", "i", "j", "k", "l", "m",
       "n", "o", "p", "q", "r", "s", "t", "u", "v", "w", "x", "y", "z" >>

\* TLC evaluates [x \in S |-> e] lazily, at every application; these two
\* make a sequence or a function a value before it is used
SeqOf(f) == f \o << >>

FcnOf(f) == f @@ << >>

CharSet == {Alphabet[i] : i \in 1..Len(Alphabet)}

Ord == FcnOf([c \in CharSet |-> CHOOSE i \in 1..Len(Alphabet) : Alphabet[i] = c])

Whitespace == {"\n", " "}

Digits == {"0", "1", "2", "3", "4", "5", "6", "7", "8", "9"}

\* \w of Python's re, on this alphabet
WordChars == CharSet \ {"\n", " ", "#", ",", "-", ".", "/", ":"}

UpperChars == {Alphabet[i] : i \in Ord["A"]..Ord["Z"]}

\* str.lower()
Lower(s) ==
    SeqOf([i \in 1..Len(s) |->
        IF s[i] \in UpperChars THEN Alphabet[Ord[s[i]] + (Ord["a"] - Ord["A"])]
        ELSE s[i]])

Pad(c, n) == SeqOf([i \in 1..n |-> c])

Take(s, n) == SubSeq(s, 1, IF Len(s) < n THEN Len(s) ELSE n)

StartsWith(s, p) == Len(s) >= Len(p) /\ SubSeq(s, 1, Len(p)) = p

\* str < str: lexical by code point, a proper prefix is smaller
RECURSIVE StrLess(_, _)
StrLess(a, b) ==
    IF b = <<>> THEN FALSE
    ELSE IF a = <<>> THEN TRUE
    ELSE IF Head(a) = Head(b) THEN StrLess(Tail(a), Tail(b))
    ELSE Ord[Head(a)] < Ord[Head(b)]

\* str.strip()
Strip(s) ==
    IF \A i \in 1..Len(s) : s[i] \in Whitespace THEN <<>>
    ELSE SubSeq(s,
                CHOOSE i \in 1..Len(s) :
                    s[i] \notin Whitespace
                        /\ \A j \in 1..(i - 1) : s[j] \in Whitespace,
                CHOOSE i \in 1..Len(s) :
                    s[i] \notin Whitespace
                        /\ \A j \in (i + 1)..Len(s) : s[j] \in Whitespace)

\* str.lstrip('#')
RECURSIVE LStripHash(_)
LStripHash(s) ==
    IF s # <<>> /\ Head(s) = "#" THEN LStripHash(Tail(s)) ELSE s

\* the pieces of s between the positions in cuts (each cut is dropped)
RECURSIVE SplitFrom(_, _, _)
SplitFrom(s, start, cuts) ==
    LET later == {p \in cuts : p >= start}
    IN  IF later = {} THEN << SubSeq(s, start, Len(s)) >>
        ELSE LET p == CHOOSE q \in later : \A r \in later : q <= r
             IN  << SubSeq(s, start, p - 1) >> \o SplitFrom(s, p + 1, cuts)

\* str.split('\n')
SplitLines(s) == SplitFrom(s, 1, {i \in 1..Len(s) : s[i] = "\n"})

SelectNonEmpty(parts) == SelectSeq(parts, LAMBDA p : p # <<>>)

MapStrip(parts) == SeqOf([i \in 1..Len(parts) |-> Strip(parts[i])])

(***************************************************************************)
(* MemoryEntry and its content-derived id.                                 *)
(***************************************************************************)
\* content[:200]
IdPrefixLen == 200

\* the sum of f[lo..hi], by halves
RECURSIVE RangeSum(_, _, _)
RangeSum(f, lo, hi) ==
    IF lo > hi THEN 0
    ELSE IF lo = hi THEN f[lo]
    ELSE LET mid == (lo + hi) \div 2
         IN  RangeSum(f, lo, mid) + RangeSum(f, mid + 1, hi)

\* a position-weighted checksum of the text, modulo m
PolyHash(input, m) ==
    LET weighted == SeqOf([i \in 1..Len(input) |->
                        (Ord[input[i]] * ((7 * i * i + 13 * i + 1) % m)) % m])
    IN  (Len(input) + RangeSum(weighted, 1, Len(input))) % m

\* the five decimal digits of h
Digits5(h) ==
    LET digit(k) == Alphabet[Ord["0"] + k]
    IN  << digit((h \div 10000) % 10), digit((h \div 1000) % 10),
           digit((h \div 100) % 10), digit((h \div 10) % 10), digit(h % 10) >>

\* hashlib.md5(...).hexdigest()[:12]: md5 is stood for by two checksums;
\* like md5, the digest is a short text of digits that depends on the hashed
\* text alone
Md5Hex12(input) ==
    Digits5(PolyHash(input, 99991)) \o Digits5(PolyHash(input, 99989))

\* generate_id without the [:200]
generate_id_whole_content(content, source) ==
    Str(Md5Hex12(source \o << ":" >> \o content))

generate_id(content, source) ==
    Str(Md5Hex12(source \o << ":" >> \o Take(content, IdPrefixLen)))

MemoryEntry(id, content, source, layer, timestamp, entity, category) ==
    [id |-> id, content |-> content, source |-> source, layer |-> layer,
     timestamp |-> timestamp, entity |-> entity, category |-> category]

(***************************************************************************)
(* Section splitting and the per-section metadata.                         *)
(***************************************************************************)
\* the lookahead #{1,3}\s at position i of s
HeadlineAt(s, i) ==
    \E k \in 1..3 :
        /\ i + k <= Len(s)
        /\ \A j \in i..(i + k - 1) : s[j] = "#"
        /\ s[i + k] \in Whitespace

\* re.split(r'\n(?=#{1,3}\s)', content), stripped, empty parts dropped
_split_by_sections(content) ==
    LET cuts == {i \in 1..Len(content) :
                    content[i] = "\n" /\ HeadlineAt(content, i + 1)}
    IN  SelectNonEmpty(MapStrip(SplitFrom(content, 1, cuts)))

\* re.match(r'(\d{4}-\d{2}-\d{2})', filename): a leading date, anything after
_extract_date_from_filename(filename) ==
    IF /\ Len(filename) >= 10
       /\ \A i \in {1, 2, 3, 4, 6, 7, 9, 10} : filename[i] \in Digits
       /\ filename[5] = "-" /\ filename[8] = "-"
    THEN Str(SubSeq(filename, 1, 10))
    ELSE None

\* the first of the section's first three lines that starts with '#'
_extract_category_from_section(section) ==
    LET lines == Take(SplitLines(section), 3)
        hits == {i \in 1..Len(lines) : StartsWith(lines[i], << "#" >>)}
    IN  IF hits = {} THEN None
        ELSE LET i == CHOOSE h \in hits : \A g \in hits : h <= g
             IN  Str(Lower(Strip(LStripHash(lines[i]))))

(***************************************************************************)
(* Paths of the sources (str(file_path)).                                  *)
(***************************************************************************)
\* the directories, under short names
MEMORY_DIR == << "w", "/", "m" >>

WORKSPACE_DIR == << "w" >>

LIFE_AREAS_DIR == << "h", "/", "a" >>

Join(dir, name) == dir \o << "/" >> \o name

SummaryName == << "s", "u", "m", "m", "a", "r", "y", ".", "m", "d" >>

ItemsName == << "i", "t", "e", "m", "s", ".", "j", "s", "o", "n" >>

AreaTypes == << "people", "companies", "projects", "skills", "workflows" >>

\* the directory name of an area type, as text
AreaDirName(area) ==
    CASE area = "people" -> << "p", "e", "o", "p", "l", "e" >>
      [] area = "companies" -> << "c", "o", "m", "p", "a", "n", "i", "e", "s" >>
      [] area = "projects" -> << "p", "r", "o", "j", "e", "c", "t", "s" >>
      [] area = "skills" -> << "s", "k", "i", "l", "l", "s" >>
      [] area = "workflows" -> << "w", "o", "r", "k", "f", "l", "o", "w", "s" >>

(***************************************************************************)
(* The collectors (one per layer).  A file is [name, isdir, readable,      *)
(* text]; reading an unreadable file raises, which the collector catches.  *)
(***************************************************************************)
RECURSIVE Flatten(_)
Flatten(seqs) ==
    IF seqs = <<>> THEN <<>> ELSE Head(seqs) \o Flatten(Tail(seqs))

\* sorted(MEMORY_DIR.glob("*.md")): by file name
RECURSIVE SortedByName(_)
SortedByName(files) ==
    IF files = {} THEN <<>>
    ELSE LET f == CHOOSE g \in files :
                    \A h \in files \ {g} : StrLess(g.name, h.name)
         IN  << f >> \o SortedByName(files \ {f})

\* minimum stripped length of a daily section
DailyMinLen == 50

\* minimum stripped length of a tacit section
TacitMinLen == 30

DailyEntriesOfFile(f) ==
    IF f.isdir \/ ~f.readable THEN <<>>
    ELSE LET path == Join(MEMORY_DIR, f.name)
             kept == SelectSeq(_split_by_sections(f.text),
                               LAMBDA sec : ~(Len(Strip(sec)) < DailyMinLen))
         IN  SeqOf([i \in 1..Len(kept) |->
                MemoryEntry(generate_id(kept[i], path), kept[i], path, "daily",
                            _extract_date_from_filename(f.name), None,
                            _extract_category_from_section(kept[i]))])

_index_daily_notes(files) ==
    LET sorted == SortedByName(files)
    IN  Flatten(SeqOf([i \in 1..Len(sorted) |-> DailyEntriesOfFile(sorted[i])]))

\* [MEMORY_MD, AGENTS_MD, HEARTBEAT_MD]
TacitNames ==
    << << "M", "E", "M", "O", "R", "Y", ".", "m", "d" >>,
       << "A", "G", "E", "N", "T", "S", ".", "m", "d" >>,
       << "H", "E", "A", "R", "T", "B", "E", "A", "T", ".", "m", "d" >> >>

TacitEntriesOfFile(f, name) ==
    IF ~f.exists \/ ~f.readable THEN <<>>
    ELSE LET path == Join(WORKSPACE_DIR, name)
             kept == SelectSeq(_split_by_sections(f.text),
                               LAMBDA sec : ~(Len(Strip(sec)) < TacitMinLen))
         IN  SeqOf([i \in 1..Len(kept) |->
                MemoryEntry(generate_id(kept[i], path), kept[i], path, "tacit",
                            None, None,
                            _extract_category_from_section(kept[i]))])

_index_tacit_knowledge(tacit) ==
    Flatten(SeqOf([i \in 1..Len(TacitNames) |->
                      TacitEntriesOfFile(tacit[i], TacitNames[i])]))

\* summary.md of one entity directory
SummaryEntries(area, dir) ==
    IF ~dir.summary.exists \/ ~dir.summary.readable THEN <<>>
    ELSE LET path == Join(Join(Join(LIFE_AREAS_DIR, AreaDirName(area)), dir.name),
                          SummaryName)
         IN  << MemoryEntry(generate_id(dir.summary.text, path), dir.summary.text,
                            path, "knowledge_graph", Str(dir.name),
                            None,
                            Str(<< "s", "u", "m", "m", "a", "r", "y", ":" >>
                                    \o AreaDirName(area))) >>

\* the loop over the records of items.json, from record i on.  A record whose
\* fact is a true value that is not a string makes generate_id raise: the
\* loop ends there, and the entries appended before it stay.
RECURSIVE FactEntries(_, _, _, _)
FactEntries(items, i, path, entity) ==
    IF i > Len(items) THEN <<>>
    ELSE LET item == items[i]
             fact_text == GetOr(item.fact, Str(<<>>))
         IN  IF ~item.isdict \/ ~Truthy(fact_text)
             THEN FactEntries(items, i + 1, path, entity)
             ELSE IF fact_text.t # "str" THEN <<>>
             ELSE << MemoryEntry(GetOr(item.id, generate_id(fact_text.s, path)),
                                 fact_text.s, path, "knowledge_graph",
                                 GetOr(item.timestamp, None), Str(entity),
                                 GetOr(item.category, Str(<< "f", "a", "c", "t" >>))) >>
                  \o FactEntries(items, i + 1, path, entity)

\* items.json of one entity directory: json.load, then a list or {'items': list}
ItemsEntries(area, dir) ==
    IF ~dir.items.exists \/ dir.items.kind \notin {"list", "dict"} THEN <<>>
    ELSE FactEntries(dir.items.items, 1,
                     Join(Join(Join(LIFE_AREAS_DIR, AreaDirName(area)), dir.name),
                          ItemsName),
                     dir.name)

EntityEntries(area, dir) ==
    IF ~dir.isdir THEN <<>>
    ELSE SummaryEntries(area, dir) \o ItemsEntries(area, dir)

_index_knowledge_graph(kg) ==
    Flatten(SeqOf([a \in 1..Len(AreaTypes) |->
        Flatten(SeqOf([d \in 1..Len(kg[AreaTypes[a]]) |->
            EntityEntries(AreaTypes[a], kg[AreaTypes[a]][d])]))]))

_index_tools(tools) ==
    LET ok == SelectSeq(tools, LAMBDA f : f.readable)
    IN  SeqOf([i \in 1..Len(ok) |->
            MemoryEntry(generate_id(ok[i].text, ok[i].name), ok[i].text, ok[i].name,
                        "tools", None, None, Str(<< "s", "k", "i", "l", "l" >>))])

\* lines 85-89 of index_all: the collectors in their fixed order
CollectAll(src) ==
    _index_daily_notes(src.daily) \o _index_tacit_knowledge(src.tacit)
        \o _index_knowledge_graph(src.kg) \o _index_tools(src.tools)

(***************************************************************************)
(* scikit-learn's TfidfVectorizer(stop_words='english', ngram_range=(1,2), *)
(* min_df=1, max_df=0.95) and cosine_similarity, in integer arithmetic:    *)
(* idf in tenths, similarity in thousandths.                               *)
(***************************************************************************)
RECURSIVE SetToSeq(_)
SetToSeq(S) ==
    IF S = {} THEN <<>>
    ELSE LET m == CHOOSE x \in S : \A y \in S : x <= y
         IN  << m >> \o SetToSeq(S \ {m})

\* a few of the words of sklearn's ENGLISH_STOP_WORDS
StopWords ==
    { << "t", "h", "e" >>, << "a", "n", "d" >>, << "w", "e" >>, << "o", "f" >> }

\* a word character of the text at position i
IsWordAt(s, i) == i >= 1 /\ i <= Len(s) /\ s[i] \in WordChars

\* the maximal runs of two or more word characters of s, in order
WordRuns(s) ==
    LET starts == SetToSeq({i \in 1..Len(s) : IsWordAt(s, i) /\ ~IsWordAt(s, i - 1)})
        ends == SetToSeq({i \in 1..Len(s) : IsWordAt(s, i) /\ ~IsWordAt(s, i + 1)})
    IN  SelectSeq(SeqOf([k \in 1..Len(starts) |-> SubSeq(s, starts[k], ends[k])]),
                  LAMBDA w : Len(w) >= 2)

\* token_pattern (?u)\b\w\w+\b on the lowercased text
Tokens(text) == WordRuns(Lower(text))

\* ngram_range=(1, 2): the unigrams, then the bigrams.  A term is the
\* sequence of its one or two tokens.
Ngrams(toks) ==
    [i \in 1..Len(toks) |-> << toks[i] >>]
        \o [i \in 1..(Len(toks) - 1) |-> << toks[i], toks[i + 1] >>]

\* the analyzer: tokens, stop words removed, then n-grams
Analyze(text) == Ngrams(SelectSeq(Tokens(text), LAMBDA w : w \notin StopWords))

TermSet(terms) == {terms[i] : i \in 1..Len(terms)}

TermCount(terms, t) == Cardinality({i \in 1..Len(terms) : terms[i] = t})

\* 10 * ln(k), rounded, for k = 1..12
LnDeci == << 0, 7, 11, 14, 16, 18, 19, 21, 22, 23, 24, 25 >>

\* min_df=1
MinDf == 1

\* max_df=0.95, in percent
MaxDfPercent == 95

\* smooth idf: ln((1 + n) / (1 + df)) + 1, in tenths
Idf(n, df) == LnDeci[1 + n] - LnDeci[1 + df] + 10

NoIdf == << >>

NoVectorizer == [state |-> "none", vocabulary |-> {}, idf |-> NoIdf]

UnfittedVectorizer == [state |-> "unfitted", vocabulary |-> {}, idf |-> NoIdf]

NoMatrix == [loaded |-> FALSE, rows |-> << >>]

\* one row of the sparse tf-idf matrix: term count times idf, for the terms
\* of the text that are in the vocabulary (the others are ignored)
TfidfRow(terms, vocabulary, idf) ==
    FcnOf([t \in TermSet(terms) \cap vocabulary |-> TermCount(terms, t) * idf[t]])

\* TfidfVectorizer.transform of one text
Transform(vectorizer, text) ==
    TfidfRow(Analyze(text), vectorizer.vocabulary, vectorizer.idf)

\* the number of documents that hold each term of the corpus
DocumentFrequency(analysed) ==
    FcnOf([t \in UNION {TermSet(analysed[i]) : i \in 1..Len(analysed)} |->
              Cardinality({i \in 1..Len(analysed) : t \in TermSet(analysed[i])})])

\* the terms kept by min_df and max_df
LimitFeatures(df, n) ==
    {t \in DOMAIN df : df[t] >= MinDf /\ 100 * df[t] <= MaxDfPercent * n}

FitError == [error |-> TRUE, vectorizer |-> UnfittedVectorizer, matrix |-> NoMatrix]

\* the fitted vectorizer and the matrix of the documents
Fitted(analysed, vocabulary, idf) ==
    [error |-> FALSE,
     vectorizer |-> [state |-> "fitted", vocabulary |-> vocabulary, idf |-> idf],
     matrix |-> [loaded |-> TRUE,
                 rows |-> SeqOf([i \in 1..Len(analysed) |->
                               TfidfRow(analysed[i], vocabulary, idf)])]]

FitVocabulary(analysed, df, vocabulary) ==
    IF vocabulary = {} THEN FitError
    ELSE Fitted(analysed, vocabulary,
                FcnOf([t \in vocabulary |-> Idf(Len(analysed), df[t])]))

FitCounted(analysed, df) ==
    IF DOMAIN df = {} \/ MaxDfPercent * Len(analysed) < 100 * MinDf THEN FitError
    ELSE FitVocabulary(analysed, df, LimitFeatures(df, Len(analysed)))

\* fit_transform(documents): "error" stands for the ValueError that scikit-learn
\* raises for an empty vocabulary, for max_df * n_docs < min_df, and when no
\* term is left after pruning by document frequency
FitTransform(documents) ==
    FitCounted(SeqOf([i \in 1..Len(documents) |-> Analyze(documents[i])]),
               DocumentFrequency(SeqOf([i \in 1..Len(documents) |->
                                           Analyze(documents[i])])))

\* floor of the square root
RECURSIVE ISqrtBetween(_, _, _)
ISqrtBetween(n, lo, hi) ==
    IF lo >= hi THEN lo
    ELSE LET mid == (lo + hi + 1) \div 2
         IN  IF mid * mid <= n THEN ISqrtBetween(n, mid, hi)
             ELSE ISqrtBetween(n, lo, mid - 1)

ISqrt(n) == ISqrtBetween(n, 0, IF n < 46340 THEN n ELSE 46340)

RECURSIVE SumOver(_, _)
SumOver(S, f) ==
    IF S = {} THEN 0
    ELSE LET x == CHOOSE y \in S : TRUE
         IN  f[x] + SumOver(S \ {x}, f)

\* the dot product of two sparse vectors
Dot(u, v) ==
    LET common == DOMAIN u \cap DOMAIN v
    IN  SumOver(common, FcnOf([t \in common |-> u[t] * v[t]]))

\* cosine_similarity of the query vector and one row, in thousandths; a zero
\* vector has similarity 0 to everything
Cosine(q, row) ==
    LET dot == Dot(q, row)
    IN  IF dot = 0 THEN 0
        ELSE (1000 * dot) \div ISqrt(Dot(q, q) * Dot(row, row))

\* argsort without the reversal
ArgsortAscending(sims) ==
    LET n == Len(sims)
        before(i, j) == sims[i] < sims[j] \/ (sims[i] = sims[j] /\ i < j)
        rank(i) == 1 + Cardinality({j \in 1..n : before(j, i)})
    IN  SeqOf([k \in 1..n |-> CHOOSE i \in 1..n : rank(i) = k])

\* similarities.argsort()[::-1]: numpy sorts ascending (stably, for the short
\* arrays of this model) and the result is reversed, so equal similarities
\* come out by descending index
ArgsortReversed(sims) ==
    LET n == Len(sims)
        before(i, j) == sims[i] > sims[j] \/ (sims[i] = sims[j] /\ i > j)
        rank(i) == 1 + Cardinality({j \in 1..n : before(j, i)})
    IN  SeqOf([k \in 1..n |-> CHOOSE i \in 1..n : rank(i) = k])

(***************************************************************************)
(* SimpleMemoryIndexer: index_all, _save_index, load_index.                *)
(***************************************************************************)
\* SimpleMemoryIndexer.__init__
NewIndexer == [entries |-> << >>, vectorizer |-> NoVectorizer, matrix |-> NoMatrix]

\* the pickled dictionary goes to the file in three parts: entries,
\* vectorizer, matrix (with the closing of the pickle)
WriteSteps == 3

\* written counts the parts that have reached the file
NoIndexFile ==
    [exists |-> FALSE, written |-> 0, entries |-> << >>,
     vectorizer |-> NoVectorizer, matrix |-> NoMatrix]

\* open(INDEX_PATH, 'wb'): the file exists and is empty
OpenedIndexFile == [NoIndexFile EXCEPT !.exists = TRUE]

\* the file when pickle.dump has written the first n parts
PartlySaved(indexer, n) ==
    [exists |-> TRUE, written |-> n,
     entries |-> IF n >= 1 THEN indexer.entries ELSE << >>,
     vectorizer |-> IF n >= 2 THEN indexer.vectorizer ELSE NoVectorizer,
     matrix |-> IF n >= WriteSteps THEN indexer.matrix ELSE NoMatrix]

\* pickle.dump of {entries, vectorizer, matrix, indexed_at} to INDEX_PATH
_save_index(indexer) == PartlySaved(indexer, WriteSteps)

\* load_index: False when the file is missing or cannot be unpickled (the
\* pickled vectorizer needs scikit-learn, a pickle cut short has no end);
\* otherwise the three fields are replaced by the file's
load_index(indexer, file, skl) ==
    IF ~file.exists \/ ~skl \/ file.written < WriteSteps
    THEN [ok |-> FALSE, indexer |-> indexer]
    ELSE [ok |-> TRUE,
          indexer |-> [entries |-> file.entries, vectorizer |-> file.vectorizer,
                       matrix |-> file.matrix]]

Contents(entries) == SeqOf([i \in 1..Len(entries) |-> entries[i].content])

\* lines 95-114: fit the vectorizer on the contents and save the index; the
\* vectorizer is assigned before fit_transform, so a fault leaves an unfitted one
IndexFitted(indexer, file, entries, fit) ==
    IF fit.error
    THEN [outcome |-> "fault", ret |-> 0,
          indexer |-> [entries |-> entries, vectorizer |-> UnfittedVectorizer,
                       matrix |-> indexer.matrix],
          file |-> file]
    ELSE [outcome |-> "ok", ret |-> Len(entries),
          indexer |-> [entries |-> entries, vectorizer |-> fit.vectorizer,
                       matrix |-> fit.matrix],
          file |-> _save_index([entries |-> entries, vectorizer |-> fit.vectorizer,
                                matrix |-> fit.matrix])]

\* index_all without the early return on an empty collection: the empty
\* index is saved
IndexEntries_saves_empty(indexer, file, entries) ==
    IF entries = << >>
    THEN [outcome |-> "ok", ret |-> 0,
          indexer |-> [indexer EXCEPT !.entries = << >>],
          file |-> _save_index([indexer EXCEPT !.entries = << >>])]
    ELSE IndexFitted(indexer, file, entries, FitTransform(Contents(entries)))

\* lines 91-93: nothing collected, nothing saved
IndexEntries(indexer, file, entries) ==
    IF entries = << >>
    THEN [outcome |-> "ok", ret |-> 0,
          indexer |-> [indexer EXCEPT !.entries = << >>], file |-> file]
    ELSE IndexFitted(indexer, file, entries, FitTransform(Contents(entries)))

\* index_all without "self.entries = []": the collectors append to the
\* entries of the earlier build
index_all_appending(indexer, file, src, skl) ==
    IF ~skl
    THEN [outcome |-> "ok", ret |-> 0, indexer |-> indexer, file |-> file]
    ELSE IndexEntries(indexer, file, indexer.entries \o CollectAll(src))

\* index_all: outcome "ok" with the returned count, or "fault" when
\* fit_transform raises
index_all(indexer, file, src, skl) ==
    IF ~skl
    THEN [outcome |-> "ok", ret |-> 0, indexer |-> indexer, file |-> file]
    ELSE IndexEntries(indexer, file, CollectAll(src))

(***************************************************************************)
(* SimpleMemorySearcher.search                                             *)
(***************************************************************************)
\* x or ''
OrEmpty(v) == IF Truthy(v) THEN v ELSE Str(<< >>)

ResultOf(entry, relevance) ==
    [id |-> entry.id, content |-> entry.content,
     metadata |-> [source |-> entry.source, layer |-> entry.layer,
                   timestamp |-> OrEmpty(entry.timestamp),
                   entity |-> OrEmpty(entry.entity),
                   category |-> OrEmpty(entry.category)],
     relevance |-> relevance]

\* the since filter written as "not entry.timestamp or entry.timestamp < since"
FilterEntry_drops_undated(entry, layer, since, entity) ==
    IF layer # "" /\ entry.layer # layer THEN "skip"
    ELSE IF Truthy(since) /\ ~Truthy(entry.timestamp) THEN "skip"
    ELSE IF Truthy(since) /\ entry.timestamp.t # "str" THEN "fault"
    ELSE IF Truthy(since) /\ StrLess(entry.timestamp.s, since.s) THEN "skip"
    ELSE IF Truthy(entity) /\ entry.entity # entity THEN "skip"
    ELSE "keep"

\* the three filters of the scan: "skip", "keep", or "fault" when a number
\* timestamp is compared with the since string
FilterEntry(entry, layer, since, entity) ==
    IF layer # "" /\ entry.layer # layer THEN "skip"
    ELSE IF Truthy(since) /\ Truthy(entry.timestamp) /\ entry.timestamp.t # "str"
    THEN "fault"
    ELSE IF Truthy(since) /\ Truthy(entry.timestamp)
            /\ StrLess(entry.timestamp.s, since.s)
    THEN "skip"
    ELSE IF Truthy(entity) /\ entry.entity # entity THEN "skip"
    ELSE "keep"

\* the loop with rows of similarity zero left out of the results
RECURSIVE Scan_skips_zero(_, _, _, _, _, _, _, _, _)
Scan_skips_zero(entries, sims, top, k, results, limit, layer, since, entity) ==
    IF k > Len(top) THEN [outcome |-> "ok", results |-> results]
    ELSE IF top[k] > Len(entries) THEN [outcome |-> "fault", results |-> << >>]
    ELSE LET entry == entries[top[k]]
             verdict == FilterEntry(entry, layer, since, entity)
         IN  IF verdict = "fault" THEN [outcome |-> "fault", results |-> << >>]
             ELSE IF verdict = "skip" \/ sims[top[k]] = 0
             THEN Scan_skips_zero(entries, sims, top, k + 1, results, limit,
                                  layer, since, entity)
             ELSE LET more == Append(results, ResultOf(entry, sims[top[k]]))
                  IN  IF Len(more) >= limit
                      THEN [outcome |-> "ok", results |-> more]
                      ELSE Scan_skips_zero(entries, sims, top, k + 1, more, limit,
                                           layer, since, entity)

\* the loop over top_indices from position k on, with the results so far
RECURSIVE Scan(_, _, _, _, _, _, _, _, _)
Scan(entries, sims, top, k, results, limit, layer, since, entity) ==
    IF k > Len(top) THEN [outcome |-> "ok", results |-> results]
    ELSE IF top[k] > Len(entries) THEN [outcome |-> "fault", results |-> << >>]
    ELSE LET entry == entries[top[k]]
             verdict == FilterEntry(entry, layer, since, entity)
         IN  IF verdict = "fault" THEN [outcome |-> "fault", results |-> << >>]
             ELSE IF verdict = "skip"
             THEN Scan(entries, sims, top, k + 1, results, limit, layer, since, entity)
             ELSE LET more == Append(results, ResultOf(entry, sims[top[k]]))
                  IN  IF Len(more) >= limit
                      THEN [outcome |-> "ok", results |-> more]
                      ELSE Scan(entries, sims, top, k + 1, more, limit,
                                layer, since, entity)

\* lines 351-353: after index_all, load what it saved
LoadBuilt(built, skl) ==
    IF built.outcome = "fault"
    THEN [outcome |-> "fault", indexer |-> built.indexer, file |-> built.file]
    ELSE [outcome |-> "ok",
          indexer |-> load_index(built.indexer, built.file, skl).indexer,
          file |-> built.file]

\* the index loaded only when the object holds none yet
EnsureIndex_keeps_loaded(indexer, file, src, skl) ==
    IF indexer.matrix.loaded
    THEN [outcome |-> "ok", indexer |-> indexer, file |-> file]
    ELSE IF load_index(indexer, file, skl).ok
    THEN [outcome |-> "ok", indexer |-> load_index(indexer, file, skl).indexer,
          file |-> file]
    ELSE LoadBuilt(index_all(indexer, file, src, skl), skl)

\* lines 350-353: load the index, building it first when none can be loaded
EnsureIndex(indexer, file, src, skl) ==
    IF load_index(indexer, file, skl).ok
    THEN [outcome |-> "ok", indexer |-> load_index(indexer, file, skl).indexer,
          file |-> file]
    ELSE LoadBuilt(index_all(indexer, file, src, skl), skl)

\* lines 359-363: the similarity of the query to every row, and the row
\* numbers by descending similarity
Ranking(similarities) ==
    [outcome |-> "ok", similarities |-> similarities,
     top_indices |-> ArgsortReversed(similarities)]

Similarities(query_vec, rows) ==
    SeqOf([i \in 1..Len(rows) |-> Cosine(query_vec, rows[i])])

\* lines 355-363: "fault" when the index could not be built or the vectorizer
\* cannot transform
RankAll(ready, skl, query) ==
    IF ready.outcome = "fault" \/ ~skl
       \/ ready.indexer.vectorizer.state # "fitted"
       \/ ~ready.indexer.matrix.loaded
    THEN [outcome |-> "fault", similarities |-> << >>, top_indices |-> << >>]
    ELSE Ranking(Similarities(Transform(ready.indexer.vectorizer, query),
                              ready.indexer.matrix.rows))

\* the scan over top_indices[:limit]: the ranking cut before the filters
ScanRanked_cut_before_filter(ready, ranking, limit, layer, since, entity) ==
    LET scanned == IF ranking.outcome = "fault"
                   THEN [outcome |-> "fault", results |-> << >>]
                   ELSE Scan(ready.indexer.entries, ranking.similarities,
                             Take(ranking.top_indices, limit), 1, << >>, limit,
                             layer, since, entity)
    IN  [outcome |-> scanned.outcome, results |-> scanned.results,
         indexer |-> ready.indexer, file |-> ready.file]

\* lines 365-394: the scan of the ranked rows and the returned list
ScanRanked(ready, ranking, limit, layer, since, entity) ==
    LET scanned == IF ranking.outcome = "fault"
                   THEN [outcome |-> "fault", results |-> << >>]
                   ELSE Scan(ready.indexer.entries, ranking.similarities,
                             ranking.top_indices, 1, << >>, limit, layer, since,
                             entity)
    IN  [outcome |-> scanned.outcome, results |-> scanned.results,
         indexer |-> ready.indexer, file |-> ready.file]

search(indexer, file, src, skl, query, limit, layer, since, entity) ==
    LET ready == EnsureIndex(indexer, file, src, skl)
    IN  ScanRanked(ready, RankAll(ready, skl, query), limit, layer, since, entity)

(***************************************************************************)
(* main: --ids lookup (lines 478-504)                                      *)
(***************************************************************************)
\* [id.strip() for id in args.ids.split(',')]
RequestedIds(ids) ==
    MapStrip(SplitFrom(ids, 1, {i \in 1..Len(ids) : ids[i] = ","}))

InRequested(id, requested) ==
    id.t = "str" /\ \E i \in 1..Len(requested) : requested[i] = id.s

\* relevance of a direct lookup: 1.0, in thousandths
DirectRelevance == 1000

get_by_ids(indexer, file, skl, ids) ==
    LET loaded == load_index(indexer, file, skl)
    IN  IF ~loaded.ok
        THEN [outcome |-> "exit", results |-> << >>, indexer |-> loaded.indexer]
        ELSE LET requested == RequestedIds(ids)
                 hits == SelectSeq(loaded.indexer.entries,
                                   LAMBDA e : InRequested(e.id, requested))
             IN  [outcome |-> "ok",
                  results |-> SeqOf([i \in 1..Len(hits) |->
                                        ResultOf(hits[i], DirectRelevance)]),
                  indexer |-> loaded.indexer]

(***************************************************************************)
(* memory-timeline.py: the dates (datetime, timedelta)                     *)
(***************************************************************************)
DigitAt(s, i) == Ord[s[i]] - Ord["0"]

TwoDigits(s, i) == 10 * DigitAt(s, i) + DigitAt(s, i + 1)

FourDigits(s, i) == 100 * TwoDigits(s, i) + TwoDigits(s, i + 2)

DigitChar(k) == Alphabet[Ord["0"] + k]

IsLeap(year) == (year % 4 = 0 /\ year % 100 # 0) \/ year % 400 = 0

DaysInMonth(year, month) ==
    IF month = 2 THEN (IF IsLeap(year) THEN 29 ELSE 28)
    ELSE IF month \in {4, 6, 9, 11} THEN 30 ELSE 31

\* the days of the years before this one, in the proleptic Gregorian calendar
DaysBeforeYear(year) ==
    (year - 1) * 365 + (year - 1) \div 4 - (year - 1) \div 100
        + (year - 1) \div 400

RECURSIVE DaysBeforeMonth(_, _)
DaysBeforeMonth(year, month) ==
    IF month = 1 THEN 0
    ELSE DaysBeforeMonth(year, month - 1) + DaysInMonth(year, month - 1)

\* date.toordinal(): 0001-01-01 is day 1
ToOrdinal(year, month, day) ==
    DaysBeforeYear(year) + DaysBeforeMonth(year, month) + day

ValidDate(year, month, day) ==
    year >= 1 /\ month \in 1..12 /\ day \in 1..DaysInMonth(year, month)

\* a datetime without time zone, in minutes
Instant(ordinal, hour, minute) == (ordinal * 24 + hour) * 60 + minute

\* anchor_time = None
NoTime == [ok |-> FALSE, instant |-> 0]

Time(instant) == [ok |-> TRUE, instant |-> instant]

\* the text has the shape dddd-dd-dd
IsoDayShape(s) ==
    /\ Len(s) >= 10
    /\ \A i \in {1, 2, 3, 4, 6, 7, 9, 10} : s[i] \in Digits
    /\ s[5] = "-" /\ s[8] = "-"

DateOfText(s) ==
    IF ValidDate(FourDigits(s, 1), TwoDigits(s, 6), TwoDigits(s, 9))
    THEN Time(Instant(ToOrdinal(FourDigits(s, 1), TwoDigits(s, 6), TwoDigits(s, 9)),
                      0, 0))
    ELSE NoTime

\* datetime.strptime(text, '%Y-%m-%d') inside try/except, for a text of 10
\* characters: %d also takes a day written as a space and a digit
strptime(s) ==
    IF Len(s) # 10 THEN NoTime
    ELSE IF IsoDayShape(s) THEN DateOfText(s)
    ELSE IF IsoDayShape([s EXCEPT ![9] = "0"]) /\ s[9] = " "
         THEN DateOfText([s EXCEPT ![9] = "0"])
         ELSE NoTime

\* the time of day after the date: HH or HH:MM, in minutes
TimeOfDay(s) ==
    IF /\ Len(s) \in {13, 16}
       /\ s[12] \in Digits /\ s[13] \in Digits
       /\ TwoDigits(s, 12) <= 23
    THEN IF Len(s) = 13 THEN Time(TwoDigits(s, 12) * 60)
         ELSE IF /\ s[14] = ":" /\ s[15] \in Digits /\ s[16] \in Digits
                 /\ TwoDigits(s, 15) <= 59
              THEN Time(TwoDigits(s, 12) * 60 + TwoDigits(s, 15))
              ELSE NoTime
    ELSE NoTime

\* datetime.fromisoformat(date): YYYY-MM-DD, optionally followed by one
\* separator character and HH or HH:MM; ok = FALSE stands for ValueError
fromisoformat(s) ==
    IF ~IsoDayShape(s) \/ ~DateOfText(s).ok THEN NoTime
    ELSE IF Len(s) = 10 THEN DateOfText(s)
    ELSE IF TimeOfDay(s).ok
         THEN Time(DateOfText(s).instant + TimeOfDay(s).instant)
         ELSE NoTime

YearOf(ordinal) ==
    CHOOSE y \in (ordinal \div 366)..(ordinal \div 365 + 1) :
        DaysBeforeYear(y) < ordinal /\ ordinal <= DaysBeforeYear(y + 1)

MonthOf(year, day_of_year) ==
    CHOOSE m \in 1..12 :
        /\ DaysBeforeMonth(year, m) < day_of_year
        /\ day_of_year <= DaysBeforeMonth(year, m) + DaysInMonth(year, m)

FormatDate(year, month, day) ==
    << DigitChar((year \div 1000) % 10), DigitChar((year \div 100) % 10),
       DigitChar((year \div 10) % 10), DigitChar(year % 10), "-",
       DigitChar(month \div 10), DigitChar(month % 10), "-",
       DigitChar(day \div 10), DigitChar(day % 10) >>

FormatDayOfYear(year, day_of_year) ==
    FormatDate(year, MonthOf(year, day_of_year),
               day_of_year - DaysBeforeMonth(year, MonthOf(year, day_of_year)))

FormatOrdinal(ordinal) ==
    FormatDayOfYear(YearOf(ordinal), ordinal - DaysBeforeYear(YearOf(ordinal)))

\* the calendar day of an instant
DayOf(instant) == instant \div (24 * 60)

\* datetime.strftime('%Y-%m-%d')
strftime(instant) == FormatOrdinal(DayOf(instant))

\* datetime + timedelta(hours=hours)
PlusHours(instant, hours) == instant + hours * 60

(***************************************************************************)
(* memory-timeline.py: get_timeline, the anchor (lines 49-99)              *)
(***************************************************************************)
\* str.replace(pat, '')
RECURSIVE RemoveAll(_, _)
RemoveAll(s, pat) ==
    IF s = <<>> THEN <<>>
    ELSE IF StartsWith(s, pat)
         THEN RemoveAll(SubSeq(s, Len(pat) + 1, Len(s)), pat)
         ELSE << Head(s) >> \o RemoveAll(Tail(s), pat)

MemPrefix == << "m", "e", "m", "-" >>

\* anchor_context = None
NoContext ==
    [t |-> "none", content |-> <<>>, source |-> <<>>, timestamp |-> None]

\* lines 64-70: the anchor_context made of an entry
ContextOfEntry(entry) ==
    [t |-> "entry", content |-> entry.content, source |-> entry.source,
     timestamp |-> entry.timestamp]

\* line 88: the anchor_context is the search result (its content, source and
\* timestamp are kept here)
ContextOfResult(result) ==
    [t |-> "result", content |-> result.content,
     source |-> result.metadata.source,
     timestamp |-> result.metadata.timestamp]

\* the anchor as the branches leave it: outcome "ok" goes on to line 96,
\* "failure" is `return {}`, "fault" an exception that nothing catches
Anchor(outcome, context, time, file) ==
    [outcome |-> outcome, context |-> context, time |-> time, file |-> file]

\* lines 71-75 and 90-94: `timestamp and len(timestamp) == 10`, then strptime
\* in a try; len() of a number raises TypeError outside the try
AnchorOfTimestamp(context, file) ==
    IF ~Truthy(context.timestamp) THEN Anchor("ok", context, NoTime, file)
    ELSE IF context.timestamp.t # "str" THEN Anchor("fault", context, NoTime, file)
    ELSE IF Len(context.timestamp.s) = 10
         THEN Anchor("ok", context, strptime(context.timestamp.s), file)
         ELSE Anchor("ok", context, NoTime, file)

\* lines 62-76: the first entry with the id, 0 when there is none
FirstWithId(entries, clean_id) ==
    IF \E i \in 1..Len(entries) : entries[i].id = Str(clean_id)
    THEN CHOOSE i \in 1..Len(entries) :
            /\ entries[i].id = Str(clean_id)
            /\ \A j \in 1..(i - 1) : entries[j].id # Str(clean_id)
    ELSE 0

AnchorOfEntryAt(entries, i, file) ==
    IF i = 0 THEN Anchor("ok", NoContext, NoTime, file)
    ELSE AnchorOfTimestamp(ContextOfEntry(entries[i]), file)

\* lines 55-76: by id, on the index as load_index finds it
AnchorById(file, skl, memory_id) ==
    IF ~load_index(NewIndexer, file, skl).ok
    THEN Anchor("failure", NoContext, NoTime, file)
    ELSE AnchorOfEntryAt(load_index(NewIndexer, file, skl).indexer.entries,
                         FirstWithId(load_index(NewIndexer, file, skl).indexer.entries,
                                     RemoveAll(memory_id, MemPrefix)),
                         file)

\* lines 78-83: by date
AnchorByDate(file, date) ==
    IF fromisoformat(date).ok
    THEN Anchor("ok", NoContext, fromisoformat(date), file)
    ELSE Anchor("failure", NoContext, NoTime, file)

AnchorOfSearch(found) ==
    IF found.outcome = "fault" THEN Anchor("fault", NoContext, NoTime, found.file)
    ELSE IF found.results = << >>
         THEN Anchor("ok", NoContext, NoTime, found.file)
         ELSE AnchorOfTimestamp(ContextOfResult(found.results[1]), found.file)

\* lines 85-94: by query, through search(query, limit=1) of a new searcher
AnchorByQuery(file, src, skl, query) ==
    AnchorOfSearch(search(NewIndexer, file, src, skl, query, 1, "", None, None))

\* the three branches as a cascade: a branch that leaves no anchor_time hands
\* over to the next supplied argument
ResolveAnchor_falling_back(file, src, skl, memory_id, date, query) ==
    IF memory_id # << >> /\ AnchorById(file, skl, memory_id).time.ok
    THEN AnchorById(file, skl, memory_id)
    ELSE IF date # << >> /\ AnchorByDate(file, date).time.ok
    THEN AnchorByDate(file, date)
    ELSE IF query # << >> THEN AnchorByQuery(file, src, skl, query)
    ELSE Anchor("ok", NoContext, NoTime, file)

\* lines 55, 78, 85: if memory_id / elif date / elif query
ResolveAnchor(file, src, skl, memory_id, date, query) ==
    IF memory_id # << >> THEN AnchorById(file, skl, memory_id)
    ELSE IF date # << >> THEN AnchorByDate(file, date)
    ELSE IF query # << >> THEN AnchorByQuery(file, src, skl, query)
    ELSE Anchor("ok", NoContext, NoTime, file)

(***************************************************************************)
(* memory-timeline.py: get_timeline, the window and the events             *)
(* (lines 101-165)                                                         *)
(***************************************************************************)
\* start_date taken hours_before after the anchor instead of before it
WindowStart_forward(instant, hours_before) ==
    strftime(PlusHours(instant, hours_before))

\* line 102: start_date
WindowStart(instant, hours_before) ==
    strftime(PlusHours(instant, 0 - hours_before))

\* line 103: end_date
WindowEnd(instant, hours_after) == strftime(PlusHours(instant, hours_after))

\* Path.stem: the name up to its last dot, unless the dot is first or last
Stem(name) ==
    IF \E i \in 2..(Len(name) - 1) :
          name[i] = "." /\ \A j \in (i + 1)..Len(name) : name[j] # "."
    THEN SubSeq(name, 1,
                (CHOOSE i \in 2..(Len(name) - 1) :
                    name[i] = "." /\ \A j \in (i + 1)..Len(name) : name[j] # ".")
                - 1)
    ELSE name

\* str.count(c)
CountOf(s, c) == Cardinality({i \in 1..Len(s) : s[i] = c})

\* str <= str
StrLeq(a, b) == a = b \/ StrLess(a, b)

\* lines 112-114: the tests a daily file passes to be read
InWindow(name, start_date, end_date) ==
    /\ CountOf(Stem(name), "-") = 2
    /\ StrLeq(start_date, Stem(name))
    /\ StrLeq(Stem(name), end_date)

\* str.strip(chars)
StripChars(s, chars) ==
    IF \A i \in 1..Len(s) : s[i] \in chars THEN <<>>
    ELSE SubSeq(s,
                CHOOSE i \in 1..Len(s) :
                    s[i] \notin chars /\ \A j \in 1..(i - 1) : s[j] \in chars,
                CHOOSE i \in 1..Len(s) :
                    s[i] \notin chars /\ \A j \in (i + 1)..Len(s) : s[j] \in chars)

\* one element of timeline_events; daily events have no 'entity' key
Event(date, type, event, file, entity) ==
    [date |-> date, type |-> type, event |-> event, file |-> file,
     entity |-> entity]

HeadlineLines(text) ==
    SelectSeq(SplitLines(text), LAMBDA line : StartsWith(line, << "#", "#" >>))

EventsOfLines(lines, name) ==
    SeqOf([i \in 1..Len(lines) |->
        Event(Str(Stem(name)), "daily_note",
              Str(StripChars(lines[i], {"#", " "})), Join(MEMORY_DIR, name),
              Absent)])

\* lines 115-125: one event per line that starts with '##'
HeadlineEvents(f) == EventsOfLines(HeadlineLines(f.text), f.name)

\* open() raises on a directory and on a file that cannot be read, and
\* nothing catches it
EventsOfFiles(hit) ==
    IF \E i \in 1..Len(hit) : hit[i].isdir \/ ~hit[i].readable
    THEN [outcome |-> "fault", events |-> << >>]
    ELSE [outcome |-> "ok",
          events |-> Flatten(SeqOf([i \in 1..Len(hit) |-> HeadlineEvents(hit[i])]))]

\* lines 108-125: the daily notes, in the order of their names
DailyEvents(files, start_date, end_date) ==
    EventsOfFiles(SelectSeq(SortedByName(files),
                            LAMBDA f : InWindow(f.name, start_date, end_date)))

\* items[-5:]
LastItems(items) ==
    SubSeq(items, IF Len(items) > 5 THEN Len(items) - 4 ELSE 1, Len(items))

\* lines 135-142: the loop over the last records, from record i on; a record
\* that is no dict raises in item.get, `except: pass` ends the loop and the
\* events appended before it stay
RECURSIVE FactEvents(_, _, _, _)
FactEvents(items, i, file, entity) ==
    IF i > Len(items) \/ ~items[i].isdict THEN << >>
    ELSE << Event(GetOr(items[i].timestamp, Str(<< >>)), "knowledge_graph",
                  GetOr(items[i].fact, Str(<< >>)), file, Str(entity)) >>
         \o FactEvents(items, i + 1, file, entity)

\* lines 130-145: one items.json; slicing {"items": [...]} raises, as does
\* json.load of a broken file, and both are passed over
ItemsEvents(area, dir, from, to) ==
    IF ~dir.isdir \/ ~dir.items.exists THEN << >>
    ELSE IF dir.items.mtime < from \/ to < dir.items.mtime THEN << >>
    ELSE IF dir.items.kind # "list" THEN << >>
    ELSE FactEvents(LastItems(dir.items.items), 1,
                    Join(Join(Join(LIFE_AREAS_DIR, AreaDirName(area)), dir.name),
                         ItemsName),
                    dir.name)

\* lines 127-145: kg_dir.rglob('items.json')
KgEvents(kg, from, to) ==
    Flatten(SeqOf([a \in 1..Len(AreaTypes) |->
        Flatten(SeqOf([d \in 1..Len(kg[AreaTypes[a]]) |->
            ItemsEvents(AreaTypes[a], kg[AreaTypes[a]][d], from, to)]))]))

\* str(n)
RECURSIVE IntText(_)
IntText(n) ==
    IF n < 0 THEN << "-" >> \o IntText(0 - n)
    ELSE IF n < 10 THEN << DigitChar(n) >>
    ELSE IntText(n \div 10) \o << DigitChar(n % 10) >>

\* lines 148-152
sort_key(event) ==
    IF event.date.t = "int" THEN IntText(event.date.n)
    ELSE IF Truthy(event.date) THEN event.date.s
    ELSE << >>

\* e placed in front of the elements with its own key: a sort that does not
\* keep the order of equal keys
InsertEvent_before_equals(sorted, e) ==
    SelectSeq(sorted, LAMBDA x : StrLess(sort_key(x), sort_key(e)))
        \o << e >>
        \o SelectSeq(sorted, LAMBDA x : ~StrLess(sort_key(x), sort_key(e)))

\* the place of e in a sorted list: behind every element whose key is not
\* greater than its own
InsertEvent(sorted, e) ==
    SelectSeq(sorted, LAMBDA x : ~StrLess(sort_key(e), sort_key(x)))
        \o << e >>
        \o SelectSeq(sorted, LAMBDA x : StrLess(sort_key(e), sort_key(x)))

\* line 154: timeline_events.sort(key=sort_key), a stable sort
RECURSIVE SortEvents(_)
SortEvents(events) ==
    IF events = << >> THEN << >>
    ELSE InsertEvent(SortEvents(SubSeq(events, 1, Len(events) - 1)),
                     events[Len(events)])

\* what get_timeline gives back; outcome "failure" is the empty dict
NoTimeline ==
    [outcome |-> "none", anchor |-> NoContext, start |-> << >>, end |-> << >>,
     hours_before |-> 0, hours_after |-> 0, events |-> << >>]

\* lines 154-165
TimelineOf(anchor, hours_before, hours_after, daily, kg) ==
    IF daily.outcome = "fault" THEN [NoTimeline EXCEPT !.outcome = "fault"]
    ELSE [outcome |-> "ok", anchor |-> anchor.context,
          start |-> WindowStart(anchor.time.instant, hours_before),
          end |-> WindowEnd(anchor.time.instant, hours_after),
          hours_before |-> hours_before, hours_after |-> hours_after,
          events |-> SortEvents(daily.events \o kg)]

\* lines 96-165: no anchor_time gives the empty dict, else the events of the
\* window are gathered
Gather(anchor, src, hours_before, hours_after) ==
    IF anchor.outcome # "ok" THEN [NoTimeline EXCEPT !.outcome = anchor.outcome]
    ELSE IF ~anchor.time.ok THEN [NoTimeline EXCEPT !.outcome = "failure"]
    ELSE TimelineOf(anchor, hours_before, hours_after,
                    DailyEvents(src.daily,
                                WindowStart(anchor.time.instant, hours_before),
                                WindowEnd(anchor.time.instant, hours_after)),
                    KgEvents(src.kg,
                             PlusHours(anchor.time.instant, 0 - hours_before),
                             PlusHours(anchor.time.instant, hours_after)))

\* get_timeline(memory_id, date, query, hours_before, hours_after): the
\* timeline and the index file as the call leaves it
get_timeline(file, src, skl, memory_id, date, query, hours_before, hours_after) ==
    [timeline |-> Gather(ResolveAnchor(file, src, skl, memory_id, date, query),
                         src, hours_before, hours_after),
     file |-> ResolveAnchor(file, src, skl, memory_id, date, query).file]

(***************************************************************************)
(* The source documents the model draws from.                              *)
(***************************************************************************)
NameJan30 ==
    << "2", "0", "2", "6", "-", "0", "1", "-", "3", "0", ".", "m", "d" >>

NameFeb01 ==
    << "2", "0", "2", "6", "-", "0", "2", "-", "0", "1", ".", "m", "d" >>

NameFeb02 ==
    << "2", "0", "2", "6", "-", "0", "2", "-", "0", "2", ".", "m", "d" >>

NameFeb03 ==
    << "2", "0", "2", "6", "-", "0", "2", "-", "0", "3", ".", "m", "d" >>

\* a name with two hyphens that is no date
NameJan31x ==
    << "2", "0", "2", "6", "-", "0", "1", "-", "3", "1", "x", ".", "m", "d" >>

NameArchive ==
    << "a", "r", "c", "h", "i", "v", "e", ".", "m", "d" >>

\* one section of 29 + 23 + 30 = 82 characters
TextDeploy ==
    << "#", "#", " ", "D", "i", "s", "c", "u", "s", "s", "e", "d", " ", "d",
       "e", "p", "l", "o", "y", "m", "e", "n", "t", " ", "p", "l", "a", "n",
       "\n", "w", "e", " ", "s", "h", "i", "p", " ", "t", "h", "e", " ", "d",
       "e", "p", "l", "o", "y", "m", "e", "n", "t", " " >>
    \o Pad("x", 30)

\* one section of 17 + 8 + 30 = 55 characters
TextBug ==
    << "#", "#", " ", "F", "i", "x", "e", "d", " ", "t", "h", "e", " ", "b",
       "u", "g", "\n", "t", "h", "e", " ", "b", "u", "g", " " >>
    \o Pad("x", 30)

\* exactly IdPrefixLen characters
LongPrefix ==
    << "#", " ", "l", "o", "n", "g", " " >>
    \o Pad("y", IdPrefixLen - 7)

\* two sections that agree on their first IdPrefixLen characters and differ
\* after, and a third section
TextLong ==
    LongPrefix
    \o << " ", "a", "l", "p", "h", "a", "\n" >>
    \o LongPrefix
    \o << " ", "b", "e", "t", "a", "\n" >>
    \o TextBug

\* the two headlines alone, each shorter than DailyMinLen
TextDiscussed ==
    << "#", "#", " ", "D", "i", "s", "c", "u", "s", "s", "e", "d", " ", "d",
       "e", "p", "l", "o", "y", "m", "e", "n", "t", " ", "p", "l", "a", "n" >>

TextFixed ==
    << "#", "#", " ", "F", "i", "x", "e", "d", " ", "t", "h", "e", " ", "b",
       "u", "g" >>

TextShort ==
    << "#", "#", " ", "S", "h", "o", "r", "t", " ", "n", "o", "t", "e", "\n",
       "n", "o", "t", "h", "i", "n", "g" >>

TextTacit ==
    << "#", " ", "P", "r", "e", "f", "s", "\n", "a", "l", "w", "a", "y", "s",
       " ", "d", "e", "p", "l", "o", "y", "m", "e", "n", "t", " ", "o", "n",
       " ", "f", "r", "i", "d", "a", "y", " ", "e", "v", "e", "n", "i", "n",
       "g" >>

TextSummary ==
    << "m", "e", "m", "e", "x", " ", "d", "e", "p", "l", "o", "y", "m", "e",
       "n", "t", " ", "n", "o", "t", "e", "s" >>

TextSkill ==
    << "s", "e", "a", "r", "c", "h", " ", "s", "k", "i", "l", "l", " ", "m",
       "a", "n", "u", "a", "l" >>

PathSkill ==
    << "w", "/", "t", "/", "S", "K", "I", "L", "L", ".", "m", "d" >>

NameAlice ==
    << "A", "l", "i", "c", "e" >>

NameMemex ==
    << "m", "e", "m", "e", "x" >>

FactJoined ==
    << "A", "l", "i", "c", "e", " ", "j", "o", "i", "n", "e", "d", " ", "t",
       "h", "e", " ", "t", "e", "a", "m" >>

FactLeads ==
    << "A", "l", "i", "c", "e", " ", "l", "e", "a", "d", "s", " ", "d", "e",
       "p", "l", "o", "y", "m", "e", "n", "t" >>

FactHunts ==
    << "A", "l", "i", "c", "e", " ", "l", "i", "k", "e", "s", " ", "b", "u",
       "g", " ", "h", "u", "n", "t", "s" >>

DateMar01 ==
    << "2", "0", "2", "6", "-", "0", "3", "-", "0", "1" >>

DateFeb01 ==
    << "2", "0", "2", "6", "-", "0", "2", "-", "0", "1" >>

DateJan30 ==
    << "2", "0", "2", "6", "-", "0", "1", "-", "3", "0" >>

DateJan31 ==
    << "2", "0", "2", "6", "-", "0", "1", "-", "3", "1" >>

DateJan31At13 == DateJan31 \o << "T", "1", "3", ":", "0", "0" >>

\* no day of the calendar
DateFeb30 ==
    << "2", "0", "2", "6", "-", "0", "2", "-", "3", "0" >>

IdK1 ==
    << "k", "1" >>

QueryDeploy ==
    << "d", "e", "p", "l", "o", "y", "m", "e", "n", "t" >>

QueryBug ==
    << "t", "h", "e", " ", "b", "u", "g" >>


File(name, text) == [name |-> name, isdir |-> FALSE, readable |-> TRUE, text |-> text]

Unreadable(name) == [name |-> name, isdir |-> FALSE, readable |-> FALSE, text |-> << >>]

Directory(name) == [name |-> name, isdir |-> TRUE, readable |-> FALSE, text |-> << >>]

NoFile == [exists |-> FALSE, readable |-> FALSE, text |-> << >>]

Doc(text) == [exists |-> TRUE, readable |-> TRUE, text |-> text]

\* st_mtime of the items.json files: 2026-01-31 12:00
NoonJan31 == Instant(ToOrdinal(2026, 1, 31), 12, 0)

NoItems ==
    [exists |-> FALSE, kind |-> "none", items |-> << >>, mtime |-> NoonJan31]

\* items.json holding a bare list of records
ItemList(items) ==
    [exists |-> TRUE, kind |-> "list", items |-> items, mtime |-> NoonJan31]

\* items.json holding {"items": [...]}
ItemDict(items) ==
    [exists |-> TRUE, kind |-> "dict", items |-> items, mtime |-> NoonJan31]

\* items.json that json.load rejects
BadJson ==
    [exists |-> TRUE, kind |-> "bad", items |-> << >>, mtime |-> NoonJan31]

Item(fact, id, timestamp, category) ==
    [isdict |-> TRUE, fact |-> fact, id |-> id, timestamp |-> timestamp,
     category |-> category]

EntityDir(name, summary, items) ==
    [name |-> name, isdir |-> TRUE, summary |-> summary, items |-> items]

NoTacit == << NoFile, NoFile, NoFile >>

NoKg == [a \in {AreaTypes[i] : i \in 1..Len(AreaTypes)} |-> << >>]

ItemJoined == Item(Str(FactJoined), Absent, Str(DateMar01), Absent)

ItemLeads == Item(Str(FactLeads), Str(IdK1), Num(1700000000), Absent)

ItemHunts == Item(Str(FactHunts), Str(IdK1), Absent, Absent)

ItemNoFact == Item(Absent, Str(IdK1), Absent, Absent)

\* a record whose fact is a number
ItemCount == Item(Num(3), Absent, Str(DateFeb01), Absent)

\* the leads fact recorded once more, without an id
ItemLeadsAgain == Item(Str(FactLeads), Absent, Str(DateFeb01), Absent)

Sources(daily, tacit, kg, tools) ==
    [daily |-> daily, tacit |-> tacit, kg |-> kg, tools |-> tools]

\* nothing to index
WorldEmpty == Sources({File(NameJan30, TextDiscussed), File(NameFeb01, TextFixed),
                       File(NameFeb03, TextShort), Directory(NameArchive)},
                      NoTacit, NoKg, << >>)

\* exactly one entry, next to a note that cannot be read
WorldOne == Sources({File(NameJan30, TextDeploy), Unreadable(NameFeb01)},
                    NoTacit, NoKg, << >>)

\* two daily notes, one section each, and notes that give no entry
WorldTwo == Sources({File(NameJan30, TextDeploy), File(NameFeb01, TextBug),
                     File(NameFeb03, TextShort), Unreadable(NameFeb02),
                     File(NameJan31x, TextShort)},
                    NoTacit, NoKg, << >>)

\* every layer
WorldAll ==
    Sources({File(NameJan30, TextDeploy), File(NameFeb01, TextBug)},
            << Doc(TextTacit), NoFile, NoFile >>,
            [NoKg EXCEPT !["people"] =
                            << EntityDir(NameAlice, NoFile,
                                         ItemList(<< ItemJoined, ItemNoFact, ItemHunts >>)) >>,
                         !["companies"] =
                            << EntityDir(NameMemex, NoFile, NoItems) >>,
                         !["projects"] =
                            << EntityDir(NameMemex, Doc(TextSummary), BadJson) >>],
            << File(PathSkill, TextSkill) >>)

\* a note with three sections, two of which share their first IdPrefixLen
\* characters; a note whose name goes on after the date; an empty
\* summary.md, and an items.json whose second record has a number for its fact
WorldLong ==
    Sources({File(NameFeb01, TextBug), File(NameFeb02, TextLong),
             File(NameJan31x, TextDeploy)}, NoTacit,
            [NoKg EXCEPT !["people"] =
                            << EntityDir(NameAlice, Doc(<< >>),
                                         ItemList(<< ItemJoined, ItemCount,
                                                    ItemHunts >>)) >>],
            << >>)

\* fact records that supply the same id, one with a numeric timestamp
WorldFacts ==
    Sources({File(NameJan30, TextDeploy), File(NameFeb01, TextBug)}, NoTacit,
            [NoKg EXCEPT !["people"] =
                            << EntityDir(NameAlice, NoFile,
                                         ItemDict(<< ItemLeads, ItemHunts, ItemJoined,
                                                    ItemLeadsAgain >>)) >>,
                         !["companies"] =
                            << EntityDir(NameMemex, NoFile,
                                         ItemList(<< ItemLeads, ItemLeadsAgain,
                                                    ItemHunts >>)) >>],
            << >>)

Worlds == {WorldEmpty, WorldOne, WorldTwo, WorldAll, WorldLong, WorldFacts}

(***************************************************************************)
(* The arguments the model draws from.                                     *)
(***************************************************************************)
\* the largest --limit tried; the smallest is -1
MaxLimit == 3

Limits == (0 - 1)..MaxLimit

Queries == {QueryDeploy, QueryBug, << >>}

\* "" stands for no layer filter (None)
LayerArgs == {"", "daily", "knowledge_graph"}

SinceArgs == {None, Str(DateFeb01), Str(DateMar01)}

EntityArgs == {None, Str(NameAlice)}

IdDeploy == generate_id(TextDeploy, Join(MEMORY_DIR, NameJan30)).s

IdBug == generate_id(TextBug, Join(MEMORY_DIR, NameFeb01)).s

IdLong == generate_id(LongPrefix, Join(MEMORY_DIR, NameFeb02)).s

\* --ids arguments: a known id, two ids against storage order, a colliding
\* derived id, a supplied id, an unknown id
IdsArgs ==
    { IdDeploy, IdBug \o << ",", " " >> \o IdDeploy, IdLong, IdK1,
      << "z", "z" >> }

IdJan31x == generate_id(TextDeploy, Join(MEMORY_DIR, NameJan31x)).s

\* --id arguments: none, a derived id as search prints it, the id of a
\* section of 2026-01-31x.md, a supplied id, an unknown id
TimelineIds == { << >>, MemPrefix \o IdDeploy, IdJan31x, IdK1, << "z", "z" >> }

\* --date arguments
DateArgs == { << >>, DateJan31, DateJan31At13, DateFeb30 }

\* --query arguments of the timeline
TimelineQueries == { << >>, QueryDeploy }

\* the default of --before and --after
DefaultHours == 24

\* --before and --after arguments: any int, negative ones included
Hours == {0 - DefaultHours \div 2, 0, DefaultHours}

(***************************************************************************)
(* The state machine.                                                      *)
(***************************************************************************)
NoOp ==
    [kind |-> "none", outcome |-> "ok", ret |-> 0, results |-> << >>,
     query |-> << >>, limit |-> 0, layer |-> "", since |-> None, entity |-> None,
     ids |-> << >>, memory_id |-> << >>, date |-> << >>, hours_before |-> 0,
     hours_after |-> 0, timeline |-> NoTimeline]

Init ==
    /\ fs \in Worlds
    /\ sklearn \in BOOLEAN
    /\ disk = NoIndexFile
    /\ ix = NewIndexer
    /\ pc = "idle"
    /\ op = NoOp

\* main --index / index_all()
IndexAll ==
    /\ pc = "idle"
    /\ \E r \in {index_all(ix, disk, fs, sklearn)} :
          /\ ix' = r.indexer
          /\ disk' = r.file
          /\ op' = [NoOp EXCEPT !.kind = "index_all", !.outcome = r.outcome,
                                !.ret = r.ret]
    /\ pc' = "done"
    /\ UNCHANGED <<fs, sklearn>>

\* searcher.search(query, limit, layer, since, entity): the steps of search,
\* with the index made ready once and the ranking made once per query
Search ==
    /\ pc = "idle"
    /\ \E ready \in {EnsureIndex(ix, disk, fs, sklearn)}, query \in Queries :
          \E ranking \in {RankAll(ready, sklearn, query)}, limit \in Limits,
             layer \in LayerArgs, since \in SinceArgs, entity \in EntityArgs :
             \E r \in {ScanRanked(ready, ranking, limit, layer, since, entity)} :
                /\ ix' = r.indexer
                /\ disk' = r.file
                /\ op' = [NoOp EXCEPT !.kind = "search", !.outcome = r.outcome,
                                      !.results = r.results, !.query = query,
                                      !.limit = limit, !.layer = layer,
                                      !.since = since, !.entity = entity]
    /\ pc' = "done"
    /\ UNCHANGED <<fs, sklearn>>

\* main --ids
GetByIds ==
    /\ pc = "idle"
    /\ \E ids \in IdsArgs :
          \E r \in {get_by_ids(ix, disk, sklearn, ids)} :
             /\ ix' = r.indexer
             /\ op' = [NoOp EXCEPT !.kind = "get_by_ids", !.outcome = r.outcome,
                                   !.results = r.results, !.ids = ids]
    /\ pc' = "done"
    /\ UNCHANGED <<fs, sklearn, disk>>

\* get_timeline(memory_id, date, query, hours_before, hours_after), with its
\* own SimpleMemorySearcher; the anchor is resolved once per choice of id,
\* date and query
Timeline ==
    /\ pc = "idle"
    /\ \E memory_id \in TimelineIds, date \in DateArgs, query \in TimelineQueries :
          \E anchor \in {ResolveAnchor(disk, fs, sklearn, memory_id, date, query)},
             hours_before \in Hours, hours_after \in Hours :
             \E r \in {Gather(anchor, fs, hours_before, hours_after)} :
                /\ disk' = anchor.file
                /\ op' = [NoOp EXCEPT !.kind = "timeline", !.outcome = r.outcome,
                                      !.timeline = r, !.memory_id = memory_id,
                                      !.date = date, !.query = query,
                                      !.hours_before = hours_before,
                                      !.hours_after = hours_after]
    /\ pc' = "done"
    /\ UNCHANGED <<fs, sklearn, ix>>

\* the caller takes the result (print_results) and may go on
Return ==
    /\ pc = "done"
    /\ pc' = "idle"
    /\ op' = NoOp
    /\ UNCHANGED <<fs, sklearn, disk, ix>>

\* a later invocation constructs a new SimpleMemoryIndexer
NewProcess ==
    /\ pc = "idle"
    /\ ix # NewIndexer
    /\ ix' = NewIndexer
    /\ UNCHANGED <<fs, sklearn, disk, pc, op>>

\* the user edits the source documents
EditSources ==
    /\ pc = "idle"
    /\ \E w \in Worlds \ {fs} : fs' = w
    /\ UNCHANGED <<sklearn, disk, ix, pc, op>>

\* install_deps
InstallDeps ==
    /\ pc = "idle"
    /\ ~sklearn
    /\ sklearn' = TRUE
    /\ UNCHANGED <<fs, disk, ix, pc, op>>

Next ==
    \/ IndexAll
    \/ Search
    \/ GetByIds
    \/ Timeline
    \/ Return
    \/ NewProcess
    \/ EditSources
    \/ InstallDeps

Spec == Init /\ [][Next]_vars

(***************************************************************************)
(* The write of the index file, step by step, next to a process that      *)
(* loads it.  One process runs index_all and is at "saving" between the    *)
(* open of INDEX_PATH and the end of pickle.dump; ix is the object of the  *)
(* other process, which constructs an indexer and calls load_index.        *)
(***************************************************************************)
NoSave == [kind |-> "none", indexer |-> NewIndexer, previous |-> NoIndexFile]

SaveInit ==
    /\ fs \in Worlds
    /\ sklearn = TRUE
    /\ disk = NoIndexFile
    /\ ix = NewIndexer
    /\ pc = "idle"
    /\ op = NoSave

\* index_all up to the open of INDEX_PATH for writing, which empties the file
OpenIndex ==
    /\ pc = "idle"
    /\ \E r \in {index_all(NewIndexer, disk, fs, sklearn)} :
          /\ r.outcome = "ok" /\ r.ret > 0
          /\ op' = [kind |-> "save", indexer |-> r.indexer, previous |-> disk]
    /\ disk' = OpenedIndexFile
    /\ pc' = "saving"
    /\ UNCHANGED <<fs, sklearn, ix>>

\* pickle.dump writes the next part; after the last one index_all returns
WriteIndex ==
    /\ pc = "saving"
    /\ disk' = PartlySaved(op.indexer, disk.written + 1)
    /\ IF disk.written + 1 < WriteSteps
       THEN UNCHANGED <<pc, op>>
       ELSE pc' = "idle" /\ op' = NoSave
    /\ UNCHANGED <<fs, sklearn, ix>>

\* the writing process is ended before pickle.dump has finished
KillWriter ==
    /\ pc = "saving"
    /\ pc' = "idle"
    /\ op' = NoSave
    /\ UNCHANGED <<fs, sklearn, disk, ix>>

\* the other process: SimpleMemoryIndexer().load_index(), at any moment
LoadIndex ==
    /\ ix' = load_index(NewIndexer, disk, sklearn).indexer
    /\ UNCHANGED <<fs, sklearn, disk, pc, op>>

SaveNext ==
    \/ OpenIndex
    \/ WriteIndex
    \/ KillWriter
    \/ LoadIndex
    \/ EditSources

SaveSpec == SaveInit /\ [][SaveNext]_vars

(***************************************************************************)
(* The properties.                                                         *)
(***************************************************************************)
SearchReturned == pc = "done" /\ op.kind = "search" /\ op.outcome = "ok"

LookupReturned == pc = "done" /\ op.kind = "get_by_ids" /\ op.outcome = "ok"

IndexBuilt == pc = "done" /\ op.kind = "index_all" /\ op.outcome = "ok"

Min(a, b) == IF a < b THEN a ELSE b

\* the result r is the entry e
SameEntry(r, e) ==
    /\ r.id = e.id
    /\ r.content = e.content
    /\ r.metadata.source = e.source
    /\ r.metadata.layer = e.layer
    /\ r.metadata.timestamp = OrEmpty(e.timestamp)
    /\ r.metadata.entity = OrEmpty(e.entity)

PassesLayer(e, layer) == layer = "" \/ e.layer = layer

PassesSince(e, since) ==
    ~Truthy(since) \/ ~Truthy(e.timestamp)
        \/ (e.timestamp.t = "str" /\ ~StrLess(e.timestamp.s, since.s))

PassesEntity(e, entity) == ~Truthy(entity) \/ e.entity = entity

\* M: the number of entries of the loaded index that pass the three filters
MatchCount ==
    Cardinality({k \in 1..Len(ix.entries) :
                    /\ PassesLayer(ix.entries[k], op.layer)
                    /\ PassesSince(ix.entries[k], op.since)
                    /\ PassesEntity(ix.entries[k], op.entity)})

\* C1: whatever the index, the query, the filters and the integer limit N
\* (zero and negative N too), a search that returns has at most N results.
C1_AtMostLimit == SearchReturned => Len(op.results) <= op.limit

\* C2: for limit >= 1 a search that returns has exactly min(limit, M)
\* results, M being the number of index entries that pass the layer, since
\* and entity filters, whatever the query.
C2_ExactCount ==
    (SearchReturned /\ op.limit >= 1) => Len(op.results) = Min(op.limit, MatchCount)

\* C2 happens: a filtered search for the empty query returns every one of the
\* M >= 2 matching entries while entries that do not match are in the index
C2_Witness ==
    /\ SearchReturned
    /\ op.query = << >>
    /\ op.layer = "knowledge_graph"
    /\ op.limit > MatchCount
    /\ MatchCount >= 2
    /\ Len(op.results) = MatchCount
    /\ Len(ix.entries) > MatchCount
    /\ \A i \in 1..Len(op.results) : op.results[i].relevance = 0

\* C3: the returned list is non-increasing in relevance, whatever the
\* filters, and each result carries the similarity of its own entry's matrix
\* row to the query.
C3_OrderedByRelevance ==
    SearchReturned =>
        /\ \A i \in 1..(Len(op.results) - 1) :
              op.results[i].relevance >= op.results[i + 1].relevance
        /\ \E query_vec \in {Transform(ix.vectorizer, op.query)} :
              \A i \in 1..Len(op.results) :
                 \E k \in 1..Len(ix.entries) :
                    /\ SameEntry(op.results[i], ix.entries[k])
                    /\ op.results[i].relevance = Cosine(query_vec, ix.matrix.rows[k])

\* C3 happens: a filtered search returns three results of strictly
\* decreasing relevance
C3_Witness ==
    /\ SearchReturned
    /\ Truthy(op.since)
    /\ Len(op.results) = 3
    /\ op.results[1].relevance > op.results[2].relevance
    /\ op.results[2].relevance > op.results[3].relevance

\* the unfiltered full ranking of the query of the finished search
FullRanking ==
    ScanRanked([outcome |-> "ok", indexer |-> ix, file |-> disk],
               RankAll([outcome |-> "ok", indexer |-> ix, file |-> disk],
                       sklearn, op.query),
               Len(ix.entries), "", None, None).results

\* C4: search(q, limit=N, layer=L) returns only entries of layer L, and its
\* result is the first min(N, count) elements of the unfiltered full ranking
\* of q restricted to layer L.
C4_LayerSubsequence ==
    (SearchReturned /\ op.layer # "" /\ ~Truthy(op.since) /\ ~Truthy(op.entity)) =>
        /\ \A i \in 1..Len(op.results) : op.results[i].metadata.layer = op.layer
        /\ \E restricted \in {SelectSeq(FullRanking,
                                        LAMBDA r : r.metadata.layer = op.layer)} :
              op.results = Take(restricted, Min(op.limit, Len(restricted)))

StoredHits ==
    SelectSeq(ix.entries, LAMBDA e : InRequested(e.id, RequestedIds(op.ids)))

\* C6: a lookup of one id that is in the index returns exactly one entry,
\* with relevance 1.0; a lookup of an id that is not in the index returns the
\* empty list; the results follow the storage order of the index.
C6_LookupById ==
    LookupReturned =>
        /\ Len(op.results) = Len(StoredHits)
        /\ \A i \in 1..Len(op.results) :
              /\ SameEntry(op.results[i], StoredHits[i])
              /\ op.results[i].relevance = DirectRelevance
        /\ Len(RequestedIds(op.ids)) = 1 =>
              Len(op.results) = IF StoredHits = << >> THEN 0 ELSE 1

\* C7: in every index that index_all produces, the entry ids are pairwise
\* distinct.
C7_IdsDistinct ==
    IndexBuilt =>
        \A i, j \in 1..Len(ix.entries) :
           i # j => ix.entries[i].id # ix.entries[j].id

\* C8 (as stated): two distinct entries of an index with the same source have
\* equal ids if and only if the first 200 characters of their contents are
\* equal, fact entries of one items.json included.
C8_IdIffPrefix ==
    IndexBuilt =>
        \A i, j \in 1..Len(ix.entries) :
           (i # j /\ ix.entries[i].source = ix.entries[j].source) =>
              (ix.entries[i].id = ix.entries[j].id
                 <=> Take(ix.entries[i].content, IdPrefixLen)
                        = Take(ix.entries[j].content, IdPrefixLen))

\* the entries of the built index whose id generate_id derived
DerivedIds ==
    {k \in 1..Len(ix.entries) :
        ix.entries[k].id = generate_id(ix.entries[k].content, ix.entries[k].source)}

\* C8 (amended): two distinct entries of an index with the same source whose
\* ids were both derived by generate_id have equal ids if and only if the
\* first 200 characters of their contents are equal.
C8_DerivedIdIffPrefix ==
    IndexBuilt =>
        \E derived \in {DerivedIds} :
           \A i, j \in derived :
              (i # j /\ ix.entries[i].source = ix.entries[j].source) =>
                 (ix.entries[i].id = ix.entries[j].id
                    <=> Take(ix.entries[i].content, IdPrefixLen)
                           = Take(ix.entries[j].content, IdPrefixLen))

\* C8 happens: a built index holds two entries of one source with derived,
\* equal ids, and two entries of one source with derived, different ids
C8_Witness ==
    /\ IndexBuilt
    /\ \E derived \in {DerivedIds} :
          \E i, j, k, l \in derived :
             /\ i # j /\ k # l
             /\ ix.entries[i].source = ix.entries[j].source
             /\ ix.entries[i].id = ix.entries[j].id
             /\ ix.entries[k].source = ix.entries[l].source
             /\ ix.entries[k].id # ix.entries[l].id

\* one more index_all over the same sources: on this indexer, and on a new one
Rebuilt == index_all(ix, disk, fs, sklearn)

RebuiltFresh == index_all(NewIndexer, disk, fs, sklearn)

Ids(entries) == SeqOf([k \in 1..Len(entries) |-> entries[k].id])

\* the ranking of a query over an indexer
RankingOf(indexer, query) ==
    RankAll([outcome |-> "ok", indexer |-> indexer, file |-> disk], sklearn,
            query).top_indices

\* C9: index_all run again over unchanged sources, on the same indexer or on
\* a new one, yields the same sequence of entries with the same ids, nothing
\* accumulated from the earlier build, and the same ranking for each query.
C9_RebuildIdempotent ==
    IndexBuilt =>
        \E again \in {Rebuilt}, fresh \in {RebuiltFresh} :
           /\ again.outcome = "ok" /\ fresh.outcome = "ok"
           /\ again.ret = op.ret /\ fresh.ret = op.ret
           /\ again.indexer.entries = ix.entries
           /\ fresh.indexer.entries = again.indexer.entries
           /\ Ids(again.indexer.entries) = Ids(ix.entries)
           /\ again.file = disk /\ fresh.file = disk
           /\ sklearn /\ op.ret > 0 =>
                 \A query \in Queries :
                    /\ RankingOf(again.indexer, query) = RankingOf(ix, query)
                    /\ RankingOf(fresh.indexer, query) = RankingOf(ix, query)

\* C9 happens: index_all has built an index of several entries with
\* different similarities to a query
C9_Witness ==
    /\ IndexBuilt
    /\ op.ret >= 3
    /\ Len(ix.entries) = op.ret
    /\ disk.entries = ix.entries
    /\ RankingOf(ix, QueryDeploy) # RankingOf(ix, QueryBug)

\* C10: an index_all that finds no entry in any collector returns 0 and
\* leaves the index file as it was: no file stays no file, and a file saved
\* earlier stays and is what a later load gives.
C10_EmptyBuildWritesNothing ==
    [][(/\ pc = "idle" /\ pc' = "done" /\ op'.kind = "index_all"
        /\ sklearn /\ CollectAll(fs) = << >>) =>
          (/\ op'.outcome = "ok" /\ op'.ret = 0
           /\ disk' = disk
           /\ load_index(ix', disk', sklearn').ok = disk.exists
           /\ disk.exists =>
                 load_index(ix', disk', sklearn').indexer.entries = disk.entries)]_vars

\* C10 happens: index_all found nothing while an index saved earlier is on
\* disk, and returned 0
C10_Witness ==
    /\ IndexBuilt
    /\ op.ret = 0
    /\ sklearn
    /\ disk.exists
    /\ disk.entries # << >>
    /\ ix.entries = << >>
    /\ CollectAll(fs) = << >>

(***************************************************************************)
(* Building and first use of the index                                     *)
(***************************************************************************)

\* C11: whenever the collectors yield at least one entry (a single entry
\* included), index_all succeeds, returns the number of collected entries
\* and persists an index with one matrix row per entry.
C11_BuildSucceeds ==
    (pc = "done" /\ op.kind = "index_all" /\ sklearn
        /\ CollectAll(fs) # << >>)
    => /\ op.outcome = "ok"
       /\ op.ret = Len(CollectAll(fs))
       /\ disk.exists
       /\ Len(disk.entries) = op.ret
       /\ Len(disk.matrix.rows) = op.ret

\* a step that runs one search to its end
SearchStep == pc = "idle" /\ pc' = "done" /\ op'.kind = "search"

\* C12: a search issued while no index is persisted and the sources hold at
\* least one entry builds the index once, persists it and answers from it;
\* a search issued while an index is persisted loads it and rebuilds nothing.
C12_LazyBuild ==
    [][(SearchStep /\ sklearn) =>
          IF disk.exists
          THEN disk' = disk /\ ix'.entries = disk.entries
          ELSE CollectAll(fs) # << >> =>
                  /\ disk'.exists
                  /\ disk'.entries = CollectAll(fs)
                  /\ ix'.entries = disk'.entries]_vars

\* C13: a search issued while no index is persisted and every collector
\* yields nothing ends with a reported outcome, not with an unhandled fault.
C13_EmptySearchReported ==
    [][(SearchStep /\ sklearn /\ ~disk.exists /\ CollectAll(fs) = << >>)
          => op'.outcome = "ok"]_vars

\* the sources with every document that cannot be read or parsed taken away
WithoutFailing(src) ==
    [daily |-> {f \in src.daily : f.isdir \/ f.readable},
     tacit |-> SeqOf([i \in 1..Len(src.tacit) |->
                  IF src.tacit[i].exists /\ ~src.tacit[i].readable
                  THEN NoFile ELSE src.tacit[i]]),
     kg |-> [a \in DOMAIN src.kg |->
               SeqOf([d \in 1..Len(src.kg[a]) |->
                  [src.kg[a][d] EXCEPT
                      !.summary = IF @.exists /\ ~@.readable THEN NoFile ELSE @,
                      !.items = IF @.kind = "bad" THEN NoItems ELSE @]])],
     tools |-> SelectSeq(src.tools, LAMBDA f : f.readable)]

\* C15: when some source document cannot be read or parsed, index_all still
\* completes, and the index holds the entries of all the other documents in
\* the order they would have without the failing document.
C15_FailureSkipped ==
    (pc = "done" /\ op.kind = "index_all" /\ sklearn /\ WithoutFailing(fs) # fs)
    => /\ op.outcome = "ok"
       /\ ix.entries = CollectAll(WithoutFailing(fs))

(***************************************************************************)
(* The timeline                                                            *)
(***************************************************************************)
\* a step that runs one get_timeline to its end
TimelineStep == pc = "idle" /\ pc' = "done" /\ op'.kind = "timeline"

\* get_timeline has returned a timeline
TimelineReturned == pc = "done" /\ op.kind = "timeline" /\ op.outcome = "ok"

\* a build from these sources persists an index
Buildable(src) == index_all(NewIndexer, NoIndexFile, src, TRUE).file.exists

\* C14: a timeline requested by id while no index is persisted builds the
\* index once from the sources and resolves the id against it: the index is
\* persisted afterwards and the answer is the one given over that index.
C14_TimelineByIdBuilds ==
    [][(TimelineStep /\ op'.memory_id # << >> /\ sklearn /\ ~disk.exists
            /\ Buildable(fs))
          => /\ disk'.exists
             /\ op'.timeline =
                    get_timeline(disk', fs, sklearn, op'.memory_id, op'.date,
                                 op'.query, op'.hours_before,
                                 op'.hours_after).timeline]_vars

\* C16: with an index persisted and loadable, a search (whatever its
\* filters) and a timeline (by id, by date or by query) end with a result or
\* a reported failure, never with an unhandled fault, whatever the index and
\* the source documents hold.
C16_NoUnhandledFault ==
    (pc = "done" /\ op.kind \in {"search", "timeline"} /\ sklearn /\ disk.exists)
    => op.outcome # "fault"

\* C17: only the first supplied of id, date and query is used.  With an id
\* the timeline is the one the id alone gives, and with a date and no id the
\* one the date alone gives, also when that argument resolves no anchor; the
\* index file is left as it was, so no search has run for a query that was
\* passed along.
C17_AnchorPriority ==
    [][TimelineStep =>
          /\ op'.memory_id # << >> =>
                /\ op'.timeline =
                       Gather(ResolveAnchor(disk, fs, sklearn, op'.memory_id,
                                            << >>, << >>),
                              fs, op'.hours_before, op'.hours_after)
                /\ disk' = disk
          /\ (op'.memory_id = << >> /\ op'.date # << >>) =>
                /\ op'.timeline =
                       Gather(ResolveAnchor(disk, fs, sklearn, << >>, op'.date,
                                            << >>),
                              fs, op'.hours_before, op'.hours_after)
                /\ disk' = disk]_vars

\* an unknown id was passed with a date that parses and a query that has a
\* hit, and the timeline failed
C17_Witness ==
    /\ pc = "done" /\ op.kind = "timeline" /\ op.outcome = "failure"
    /\ sklearn /\ disk.exists
    /\ op.memory_id = << "z", "z" >>
    /\ op.date = DateJan31
    /\ op.query = QueryDeploy
    /\ \E i \in 1..Len(disk.entries) : disk.entries[i].id = Str(IdDeploy)

\* C18: whenever no anchor instant is determined (unknown id, anchor entry or
\* top search result without a day timestamp, date that does not parse),
\* get_timeline returns the failure outcome: no anchor, no window, no events.
C18_NoAnchorFails ==
    [][(TimelineStep /\ sklearn /\ disk.exists
            /\ ~ResolveAnchor(disk, fs, sklearn, op'.memory_id, op'.date,
                              op'.query).time.ok)
          => op'.timeline = [NoTimeline EXCEPT !.outcome = "failure"]]_vars

\* the text is the calendar day that holds the instant
IsDayOf(text, instant) ==
    /\ strptime(text).ok
    /\ strptime(text).instant <= instant
    /\ instant < strptime(text).instant + 24 * 60

\* the window [start, end] is right for the anchor instant and the hours
WindowRight(instant, hours_before, hours_after, start, end) ==
    /\ IsDayOf(start, instant - 60 * hours_before)
    /\ IsDayOf(end, instant + 60 * hours_after)
    /\ (hours_before >= 0 /\ hours_after >= 0) =>
          /\ StrLeq(start, strftime(instant)) /\ StrLeq(strftime(instant), end)
          /\ strptime(start).instant <= instant
          /\ instant < strptime(end).instant + 24 * 60
    /\ (instant % (24 * 60) = 0 /\ hours_before = 24 /\ hours_after = 24) =>
          /\ strptime(start).instant = instant - 24 * 60
          /\ strptime(end).instant = instant + 24 * 60

\* C19: for a resolved anchor instant A the reported window starts on the
\* calendar day of A - hours_before and ends on the calendar day of
\* A + hours_after; with hours that are not negative the day of A lies in
\* the window, and for A at midnight of day D with 24 hours on both sides
\* the window is [D - 1, D + 1].
C19_WindowDays ==
    [][(TimelineStep /\ op'.outcome = "ok") =>
          /\ ResolveAnchor(disk, fs, sklearn, op'.memory_id, op'.date,
                           op'.query).time.ok
          /\ WindowRight(ResolveAnchor(disk, fs, sklearn, op'.memory_id, op'.date,
                                       op'.query).time.instant,
                         op'.hours_before, op'.hours_after,
                         op'.timeline.start, op'.timeline.end)]_vars

\* the timeline of 2026-01-31 with 24 hours on both sides runs from
\* 2026-01-30 to 2026-02-01
C19_Witness ==
    /\ TimelineReturned
    /\ op.memory_id = << >> /\ op.date = DateJan31
    /\ op.hours_before = 24 /\ op.hours_after = 24
    /\ op.timeline.start = DateJan30
    /\ op.timeline.end = DateFeb01

\* the name is a YYYY-MM-DD date followed by .md
IsDateName(name) ==
    /\ Len(name) = 13
    /\ SubSeq(name, 11, 13) = << ".", "m", "d" >>
    /\ IsoDayShape(name)
    /\ DateOfText(name).ok

\* the '##' lines of the daily notes named by a date of the window, as
\* events dated with the file's date, in the order of the file names
DatedHeadlines(files, start, end) ==
    Flatten(SeqOf([i \in 1..Len(SortedByName(files)) |->
        IF /\ IsDateName(SortedByName(files)[i].name)
           /\ StrLeq(start, SubSeq(SortedByName(files)[i].name, 1, 10))
           /\ StrLeq(SubSeq(SortedByName(files)[i].name, 1, 10), end)
        THEN HeadlineEvents(SortedByName(files)[i])
        ELSE << >>]))

\* C20: the daily_note events of a returned timeline are exactly the '##'
\* lines of the daily notes whose name is a YYYY-MM-DD date within
\* [start, end], one event per line, dated with the file's date; any other
\* file contributes no event.
C20_DailyEvents ==
    TimelineReturned =>
        SelectSeq(op.timeline.events, LAMBDA e : e.type = "daily_note")
            = DatedHeadlines(fs.daily, op.timeline.start, op.timeline.end)

\* the path of the items.json of an entity directory
ItemsPath(area, dir) ==
    Join(Join(Join(LIFE_AREAS_DIR, AreaDirName(area)), dir.name), ItemsName)

\* the knowledge_graph events that come from one items.json
EventsOfList(events, area, dir) ==
    SelectSeq(events, LAMBDA e : e.type = "knowledge_graph"
                                    /\ e.file = ItemsPath(area, dir))

\* got are the events of the last min(5, n) records of the list, each with
\* the entity name, when the file time lies in [from, to], and none otherwise
FactListRight(got, dir, from, to) ==
    IF dir.items.mtime < from \/ to < dir.items.mtime THEN got = << >>
    ELSE /\ Len(got) = Min(5, Len(dir.items.items))
         /\ \A i \in 1..Len(got) :
               /\ got[i].entity = Str(dir.name)
               /\ \E k \in 1..Len(dir.items.items) :
                     /\ k > Len(dir.items.items) - 5
                     /\ got[i].event = GetOr(dir.items.items[k].fact, Str(<< >>))
                     /\ got[i].date = GetOr(dir.items.items[k].timestamp, Str(<< >>))

\* the anchor instant of a get_timeline step
AnchorInstant ==
    ResolveAnchor(disk, fs, sklearn, op'.memory_id, op'.date, op'.query).time.instant

\* C21: in a returned timeline every fact list of the knowledge graph, bare
\* or wrapped under 'items', whose file time lies in
\* [anchor - hours_before, anchor + hours_after] contributes exactly its last
\* min(5, n) facts as knowledge_graph events tagged with the entity name, and
\* a list whose file time is outside contributes none.
C21_FactListEvents ==
    [][(TimelineStep /\ op'.outcome = "ok") =>
          \A a \in 1..Len(AreaTypes) :
             \A d \in 1..Len(fs.kg[AreaTypes[a]]) :
                (/\ fs.kg[AreaTypes[a]][d].isdir
                 /\ fs.kg[AreaTypes[a]][d].items.exists
                 /\ fs.kg[AreaTypes[a]][d].items.kind \in {"list", "dict"})
                => \E got \in {EventsOfList(op'.timeline.events, AreaTypes[a],
                                             fs.kg[AreaTypes[a]][d])} :
                      FactListRight(got, fs.kg[AreaTypes[a]][d],
                                    PlusHours(AnchorInstant, 0 - op'.hours_before),
                                    PlusHours(AnchorInstant, op'.hours_after))]_vars

\* the string form of an event date: str() of a number, the text itself, and
\* the empty text for a missing one
DateText(date) ==
    IF date.t = "int" THEN IntText(date.n)
    ELSE IF date.t = "str" THEN date.s
    ELSE << >>

\* the events in the order get_timeline gathers them for an anchor instant
Gathered(instant, hours_before, hours_after) ==
    DailyEvents(fs.daily, WindowStart(instant, hours_before),
                WindowEnd(instant, hours_after)).events
        \o KgEvents(fs.kg, PlusHours(instant, 0 - hours_before),
                    PlusHours(instant, hours_after))

\* events is ordered by date text, and the events of each date are those of
\* gathered with that date, in the same order
SortedStably(events, gathered) ==
    /\ \A i \in 1..(Len(events) - 1) :
          ~StrLess(DateText(events[i + 1].date), DateText(events[i].date))
    /\ Len(events) = Len(gathered)
    /\ \A i \in 1..Len(gathered) :
          SelectSeq(events,
                    LAMBDA e : DateText(e.date) = DateText(gathered[i].date))
            = SelectSeq(gathered,
                        LAMBDA e : DateText(e.date) = DateText(gathered[i].date))
    /\ \A i \in 1..Len(events) : \A j \in (i + 1)..Len(events) :
          (/\ DateText(events[i].date) = DateText(events[j].date)
           /\ events[j].type = "daily_note")
          => events[i].type = "daily_note"

\* C22: the events of a returned timeline are in non-decreasing order of the
\* string form of their date, whether the date is a text, a number or
\* missing, and events of equal date keep their gathering order, daily-note
\* events before knowledge-graph events.
C22_EventsSorted ==
    [][(TimelineStep /\ op'.outcome = "ok") =>
          \E gathered \in {Gathered(AnchorInstant, op'.hours_before,
                                   op'.hours_after)} :
             SortedStably(op'.timeline.events, gathered)]_vars

\* a returned timeline with a numeric date, a missing date, and a daily-note
\* event followed by a knowledge-graph event of the same date
C22_Witness ==
    /\ TimelineReturned
    /\ \E i \in 1..Len(op.timeline.events) : op.timeline.events[i].date.t = "int"
    /\ \E i \in 1..Len(op.timeline.events) :
          ~Truthy(op.timeline.events[i].date)
    /\ \E i \in 1..(Len(op.timeline.events) - 1) :
          /\ op.timeline.events[i].type = "daily_note"
          /\ op.timeline.events[i + 1].type = "knowledge_graph"
          /\ op.timeline.events[i].date = op.timeline.events[i + 1].date

(***************************************************************************)
(* The scenario of the two daily notes                                     *)
(***************************************************************************)
\* the sections of the daily note of this name that open with the headline
SectionsOf(src, name, headline) ==
    UNION {{sec \in TermSet(_split_by_sections(f.text)) : StartsWith(sec, headline)} :
              f \in {g \in src.daily : g.name = name /\ ~g.isdir /\ g.readable}}

\* the two notes of the scenario, each with its headline, and no other
\* document that gives an entry
ScenarioNotes(src) ==
    /\ SectionsOf(src, NameJan30, TextDiscussed) # {}
    /\ SectionsOf(src, NameFeb01, TextFixed) # {}
    /\ \A e \in TermSet(CollectAll(src)) :
          e.source \in {Join(MEMORY_DIR, NameJan30), Join(MEMORY_DIR, NameFeb01)}

\* both sections reach DailyMinLen and only the first speaks of the query
LongSections(src) ==
    /\ \A sec \in SectionsOf(src, NameJan30, TextDiscussed)
                  \cup SectionsOf(src, NameFeb01, TextFixed) :
          Len(Strip(sec)) >= DailyMinLen
    /\ \A sec \in SectionsOf(src, NameFeb01, TextFixed) :
          QueryDeploy \notin TermSet(Tokens(sec))

\* a search for the query of the scenario, unfiltered, asking for two results
\* or more, over an index built from the sources as they are
ScenarioSearch ==
    /\ SearchStep /\ sklearn
    /\ op'.query = QueryDeploy /\ op'.limit >= 2
    /\ op'.layer = "" /\ op'.since = None /\ op'.entity = None
    /\ ~disk.exists \/ disk.entries = CollectAll(fs)

\* the index holds both sections and the answer lists the first before the second
ScenarioRanked(entries, outcome, results) ==
    /\ \E k \in 1..Len(entries) : StartsWith(entries[k].content, TextDiscussed)
    /\ \E k \in 1..Len(entries) : StartsWith(entries[k].content, TextFixed)
    /\ outcome = "ok"
    /\ Len(results) = 2
    /\ StartsWith(results[1].content, TextDiscussed)
    /\ StartsWith(results[2].content, TextFixed)

\* C23 as stated: an index built from the two daily notes of the scenario,
\* 2026-01-30.md with "## Discussed deployment plan" and 2026-02-01.md with
\* "## Fixed the bug", contains both sections, and search("deployment")
\* returns the deployment section above the bug-fix section.
C23_ScenarioRanking ==
    [][(ScenarioSearch /\ ScenarioNotes(fs))
          => ScenarioRanked(ix'.entries, op'.outcome, op'.results)]_vars

\* C23, amended: the same, when each of the two sections has at least 50
\* characters after trimming and the bug-fix section does not use the word
\* of the query.
C23_LongSectionsRanking ==
    [][(ScenarioSearch /\ ScenarioNotes(fs) /\ LongSections(fs))
          => ScenarioRanked(ix'.entries, op'.outcome, op'.results)]_vars

C23_Witness ==
    /\ SearchReturned /\ sklearn
    /\ ScenarioNotes(fs) /\ LongSections(fs)
    /\ disk.exists /\ disk.entries = CollectAll(fs)
    /\ op.query = QueryDeploy /\ op.limit >= 2
    /\ op.layer = "" /\ op.since = None /\ op.entity = None
    /\ ScenarioRanked(ix.entries, op.outcome, op.results)
    /\ op.results[1].relevance > op.results[2].relevance

\* C24: in every reachable state the matrix and the entries an indexer
\* object holds in memory belong to one build: the matrix has one row for
\* each entry (none when there is no matrix) and row i is the vector of
\* entry i under the vectorizer the object holds.
C24_MatrixOfEntries ==
    /\ Len(ix.matrix.rows) = Len(ix.entries)
    /\ ix.matrix.loaded =>
          \A i \in 1..Len(ix.entries) :
             ix.matrix.rows[i] = Transform(ix.vectorizer, ix.entries[i].content)

(***************************************************************************)
(* The write of the index file                                             *)
(***************************************************************************)
\* what the completed builds of the catalogue leave in memory
CompletedBuilds ==
    {r.indexer : r \in {b \in {index_all(NewIndexer, NoIndexFile, w, TRUE) : w \in Worlds} :
                            b.outcome = "ok" /\ b.ret > 0}}

\* a step in which the writing process is ended inside the write
KillStep == pc = "saving" /\ pc' = "idle" /\ disk' = disk

\* C25: a load that runs during or after a write either fails or yields the
\* entries, vectorizer and matrix of one completed build, and a write that
\* is interrupted leaves the index that was persisted before it loadable
\* as it was.
C25_AtomicSave ==
    [][/\ ix' # ix => (ix' = NewIndexer \/ ix' \in CompletedBuilds)
       /\ (KillStep /\ op.previous.exists /\ op.previous.written = WriteSteps)
             => load_index(NewIndexer, disk', sklearn)
                   = load_index(NewIndexer, op.previous, sklearn)]_vars

(***************************************************************************)
(* The collectors                                                          *)
(***************************************************************************)
\* the least length of content a layer lets in
MinLenOf(layer) ==
    IF layer = "daily" THEN DailyMinLen
    ELSE IF layer = "tacit" THEN TacitMinLen
    ELSE 1

\* C26: every entry of a built index has content at least as long as the
\* threshold of its layer: not empty in any layer, 50 characters after
\* trimming for daily entries and 30 for tacit entries.
C26_ContentThreshold ==
    IndexBuilt =>
       \A e \in TermSet(ix.entries) : Len(Strip(e.content)) >= MinLenOf(e.layer)

\* the records of a fact list that have a fact that is not empty
FactRecords(items) ==
    SelectSeq(items, LAMBDA item : item.isdict /\ Truthy(GetOr(item.fact, Str(<< >>))))

\* the entries of an index that come from one items.json
EntriesOfList(entries, area, dir) ==
    SelectSeq(entries, LAMBDA e : e.layer = "knowledge_graph"
                                     /\ e.source = ItemsPath(area, dir))

\* got holds one entry for each record with a fact, in the order of the
\* records: the fact as content, the directory name as entity, what the
\* record supplies as id, timestamp and category, and otherwise a derived id,
\* no timestamp and the category "fact"
FactEntriesRight(got, area, dir) ==
    \E recs \in {FactRecords(dir.items.items)} :
       /\ Len(got) = Len(recs)
       /\ \A k \in 1..Len(recs) :
             /\ Str(got[k].content) = recs[k].fact
             /\ got[k].entity = Str(dir.name)
             /\ got[k].id = GetOr(recs[k].id,
                                  generate_id(got[k].content, ItemsPath(area, dir)))
             /\ got[k].timestamp = GetOr(recs[k].timestamp, None)
             /\ got[k].category = GetOr(recs[k].category, Str(<< "f", "a", "c", "t" >>))

\* C27: for every items.json that holds a fact list, bare or wrapped under
\* "items", a built index holds exactly one knowledge_graph entry for each
\* record with a fact that is not empty, in record order and with the
\* record's own fields; the records without a fact add nothing and take
\* nothing away, and the wrapping makes no difference.
C27_OneEntryPerFact ==
    (IndexBuilt /\ op.ret > 0) =>
       \A a \in 1..Len(AreaTypes) :
          \A d \in 1..Len(fs.kg[AreaTypes[a]]) :
             \E dir \in {fs.kg[AreaTypes[a]][d]} :
                dir.items.kind \in {"list", "dict"}
                   => \E got \in {EntriesOfList(ix.entries, AreaTypes[a], dir)} :
                         FactEntriesRight(got, AreaTypes[a], dir)

\* reading items.json fails: the file is no JSON, or the loop over its
\* records raises at a record whose fact is neither empty nor a string
ItemsFail(dir) ==
    \/ dir.items.kind = "bad"
    \/ /\ dir.items.kind \in {"list", "dict"}
       /\ \E r \in TermSet(FactRecords(dir.items.items)) : r.fact.t # "str"

\* C28: a document whose reading or parsing fails at any point contributes
\* no entry at all to the built index: for an items.json that fails at a
\* later record, the entries made from its earlier records are not in it.
C28_FailedDocumentAbsent ==
    (IndexBuilt /\ op.ret > 0) =>
       \A a \in 1..Len(AreaTypes) :
          \A d \in 1..Len(fs.kg[AreaTypes[a]]) :
             \E dir \in {fs.kg[AreaTypes[a]][d]} :
                ItemsFail(dir) => EntriesOfList(ix.entries, AreaTypes[a], dir) = << >>

\* C29: a search issued while an index is persisted loads it afresh: whatever
\* the searcher object held before, it holds the persisted entries,
\* vectorizer and matrix afterwards, its answer is the one a new object gives
\* over the persisted index, and the index file is left as it was.
C29_SearchLoadsAfresh ==
    [][(SearchStep /\ sklearn /\ disk.exists) =>
          /\ disk' = disk
          /\ ix' = load_index(NewIndexer, disk, sklearn).indexer
          /\ op'.outcome = search(NewIndexer, disk, fs, sklearn, op'.query, op'.limit,
                                  op'.layer, op'.since, op'.entity).outcome
          /\ op'.results = search(NewIndexer, disk, fs, sklearn, op'.query, op'.limit,
                                  op'.layer, op'.since, op'.entity).results]_vars

\* a search has answered from a persisted index that is older than the
\* sources, on an object that holds that index now
C29_Witness ==
    /\ SearchReturned /\ sklearn
    /\ disk.exists /\ disk.entries # CollectAll(fs)
    /\ ix = load_index(NewIndexer, disk, sklearn).indexer
    /\ op.results # << >>

\* the daily notes whose path is the source of the anchor entry
AnchorNotes == {f \in fs.daily : Join(MEMORY_DIR, f.name) = op.timeline.anchor.source}

\* C30: a timeline returned for the id of a daily entry that carries a
\* timestamp, with hours_before and hours_after not negative, has an event
\* for every '##' line of the file the entry came from: the file the indexer
\* stamped with date D is a daily file of date D for the timeline too.
C30_AnchorFileEvents ==
    (/\ TimelineReturned /\ op.memory_id # << >>
     /\ op.hours_before >= 0 /\ op.hours_after >= 0
     /\ op.timeline.anchor.t = "entry"
     /\ Truthy(op.timeline.anchor.timestamp))
    => \A f \in AnchorNotes :
          \A line \in TermSet(HeadlineLines(f.text)) :
             \E ev \in TermSet(op.timeline.events) :
                /\ ev.type = "daily_note"
                /\ ev.file = Join(MEMORY_DIR, f.name)
                /\ ev.event = Str(StripChars(line, {"#", " "}))

====
